---- MODULE Spec2Model ----
(***************************************************************************)
(* Verification model of ralph-orchestrator.                               *)
(*                                                                         *)
(* Part I  : the iteration driver, RalphOrchestrator.arun, with its        *)
(*           signal handlers (src/ralph_orchestrator/orchestrator.py).     *)
(* Part II : the ACP adapter life cycle (adapters/acp.py) with the         *)
(*           terminal table of its handlers (adapters/acp_handlers.py).    *)
(*                                                                         *)
(* One step of the driver runs from one suspension point (await) of arun   *)
(* to the next: arun installs its signal handlers with                     *)
(* loop.add_signal_handler, so a handler runs as an event-loop callback,   *)
(* while the driver task is suspended.  The handler's own statements are   *)
(* separate steps, so that their order is observable.                      *)
(***************************************************************************)
EXTENDS Integers, Sequences, FiniteSets, TLC

VARIABLES
    \* ---- configuration, fixed at construction (RalphOrchestrator.__init__)
    max_iterations,        \* SafetyGuard iteration ceiling
    checkpoint_interval,   \* self.checkpoint_interval
    adapters,              \* self.adapters, keys in registration order
    primary_tool,          \* self.primary_tool (current_adapter = adapters[primary_tool])
    async_logger,          \* self._async_logger is not None
    running_task,          \* self._running_task refers to a task that is not done
    file_choices,          \* what the prompt file can be rewritten to during a call
    iteration_telemetry,   \* self.iteration_telemetry
    output_preview_length, \* self.output_preview_length
    track_costs,           \* self.track_costs
    output_kinds,          \* what the output of a successful call can be like
    \* ---- the world
    prompt_file,           \* [exists, readable, lines]: the prompt file on disk
    runtime_up,            \* time.time() - start_time >= max_runtime
    \* ---- driver state
    pc,                    \* where arun is suspended
    stop_requested,        \* self.stop_requested
    metrics,               \* self.metrics: iterations, successful, failed, errors
    consecutive_failures,  \* self.safety_guard.consecutive_failures
    fb_idx,                \* position in adapters.items() of the fallback being awaited
    exit_reason,           \* which exit of the while loop was taken
    loop_detected,         \* arun's local loop_detected
    guard_has_output,      \* the guard's window of recent outputs is not empty
    last_response_output,  \* self.last_response_output: the attempt whose response
                           \* it was taken from, 0 for None
    trigger_reason,        \* arun's local trigger_reason ("none" before the first tick)
    iteration_stats,       \* self.iteration_stats (enabled: it is not None)
    cost_tracker,          \* self.cost_tracker (enabled: it is not None)
    context,               \* the rollups of self.context_manager, as entry counts
    archives,              \* prompt files written to the archive directory
    \* ---- signal handler
    sig_pc,                \* statement of the handler to run next (0: no handler active)
    signals,               \* signals delivered so far
    handler_log,           \* effects of the handlers, in the order they happened
    logger_latch,          \* AsyncFileLogger emergency-shutdown latch
    cancel_pending,        \* the driver task has been cancelled and not yet resumed
    \* ---- history of the run, for the properties
    attempts,              \* ticks of this run in which the primary adapter was invoked
    invoked,               \* adapters invoked in the current iteration, in order
    outcomes,              \* success flag of each of those invocations
    iteration_result,      \* what _aexecute_iteration returned last ("none" before)
    fail_streak,           \* failed iterations in a row, up to the last finished one
    started_after_stop,    \* an aexecute call started while stop_requested was set
    start_file,            \* the prompt file as it was when arun started
    \* ---- ACP adapter (ACPAdapter)
    acp_pc,                \* where aexecute is suspended ("idle": no call in progress)
    acp_client_ref,        \* self._client is not None
    client_state,          \* the ACPClient made last: "none", "unstarted", "running", "stopped"
    acp_process,           \* its child process: "none", "alive", "dead"
    acp_initialized,       \* self._initialized
    acp_session_id,        \* self._session_id (0: None)
    shutdown_requested,    \* self._shutdown_requested
    terminals,             \* self._handlers._terminals: terminal id -> "running" or "exited"
    \* ---- the agent, and the history of the adapter
    agent_sessions,        \* sessions the agent has created; the last one's id
    term_count,            \* terminals created so far (their ids are fresh)
    acp_calls,             \* aexecute calls made so far
    wire,                  \* requests sent to the client made last, in order
    handshake,             \* that client's handshake: "none", "pending", "complete", "failed"
    granted_sid,           \* the sessionId its session/new returned (0: none)
    acp_result,            \* what the last aexecute returned ("none" before)
    acp_response,          \* the ToolResponse it returned
    session,               \* self._session: output, thoughts, tool_calls (empty: None)
    arrivals,              \* session/update payloads received since the last reset
    late_updates,          \* whether one of them was emitted for a prompt that had ended
    last_reply,            \* the agent's answer to the last session/prompt
    shutdown_kind,         \* the shutdown that happened last, with no call since
    \* ---- ACP handlers (ACPHandlers): permissions
    permission_mode,       \* self.permission_mode
    allowlist,             \* self.allowlist, a list of patterns
    stdin_tty,             \* sys.stdin.isatty()
    history,               \* self._history: (request, result) entries in order
    history_copy,          \* a list a caller got from get_history() (and changed)
    permission_reply,      \* what handle_request_permission returned last
    last_request,          \* the params it was called with
    requests_handled,      \* calls of handle_request_permission so far
    \* ---- ACP handlers (ACPHandlers): terminals
    output_buffer,         \* Terminal.output_buffer of each terminal of the table
    pipe,                  \* what its command has written and nobody has read yet
    terminal_request,      \* the terminal request of the agent handled last or next
    terminal_reply,        \* the answer to it ("none" while it is not handled)
    \* ---- ACP handlers (ACPHandlers): files
    fs,                    \* the file system: what is at each path
    fs_request,            \* the file request of the agent handled last or next
    fs_reply,              \* the answer to it ("none" while it is not handled)
    last_write,            \* path and content of the last write that succeeded
    \* ---- context assembler (ContextManager)
    cm_max,                \* self.max_context_size
    cm_text,               \* self.prompt_text, a sequence of characters
    cm_prefix,             \* self.stable_prefix
    cm_dynamic,            \* self.dynamic_context
    cm_errors,             \* self.error_history
    cm_success,            \* self.success_patterns
    cm_cached,             \* the cache file of the stable prefix is written
    cm_updates,            \* update_context and add_error_feedback calls so far
    cm_asked,              \* get_prompt has been called
    cm_prompt,             \* what it returned last
    cm_inputs,             \* what the callers pass in: how many calls, which texts
    cm_added,              \* every entry added to the three lists since the last
                           \* reset, and the call made last
    \* ---- subprocess client (ACPClient)
    cl_state,              \* "none", "running" after start(), "stopped" after stop()
    cl_request_id,         \* self._protocol._request_id
    cl_pending,            \* ids of self._pending_requests
    cl_futures,            \* the futures send_request returned, in call order
    cl_unwritten,          \* requests waiting for the write lock, first in front
    cl_frames,             \* ids of the request frames on the child's stdin
    \* ---- a RalphOrchestrator as __init__ leaves it
    orc                    \* its settings and those of its components

cfg_vars  == <<max_iterations, checkpoint_interval, adapters, primary_tool,
               async_logger, running_task, file_choices, iteration_telemetry,
               output_preview_length, track_costs, output_kinds>>
sig_vars  == <<sig_pc, signals, handler_log, logger_latch, cancel_pending>>
loop_vars == <<pc, metrics, consecutive_failures, fb_idx, exit_reason,
               loop_detected, guard_has_output>>
hist_vars == <<attempts, invoked, outcomes, iteration_result, fail_streak,
               started_after_stop, start_file>>
\* What _reset_state replaces, and the archive
run_vars  == <<trigger_reason, cost_tracker, context, archives>>
tel_vars  == <<run_vars, iteration_stats>>
drv_vars  == <<cfg_vars, prompt_file, runtime_up, stop_requested, loop_vars,
               sig_vars, hist_vars, tel_vars, last_response_output>>

acp_vars  == <<acp_pc, acp_client_ref, client_state, acp_process, acp_initialized,
               acp_session_id, shutdown_requested, terminals, agent_sessions,
               term_count, acp_calls, wire, handshake, granted_sid, acp_result,
               acp_response, session, arrivals, late_updates,
               last_reply,
               shutdown_kind>>

perm_vars == <<permission_mode, allowlist, stdin_tty, history, history_copy,
               permission_reply, last_request, requests_handled>>
term_vars == <<output_buffer, pipe, terminal_request, terminal_reply>>
file_vars == <<fs, fs_request, fs_reply, last_write>>
hdl_vars  == <<perm_vars, term_vars, file_vars>>
\* The adapter's fields other than the terminal table
conn_vars == <<acp_pc, acp_client_ref, client_state, acp_process, acp_initialized,
               acp_session_id, shutdown_requested, agent_sessions, acp_calls,
               wire, handshake, granted_sid, acp_result, acp_response, session,
               arrivals, late_updates, last_reply, shutdown_kind>>

ctx_vars  == <<cm_max, cm_text, cm_prefix, cm_dynamic, cm_errors, cm_success,
               cm_cached, cm_updates, cm_asked, cm_prompt, cm_inputs, cm_added>>
cli_vars  == <<cl_state, cl_request_id, cl_pending, cl_futures, cl_unwritten,
               cl_frames>>
\* The classes used on their own
ctor_vars == <<orc>>
lib_vars  == <<ctx_vars, cli_vars, ctor_vars>>

vars == <<drv_vars, acp_vars, hdl_vars, lib_vars>>

----------------------------------------------------------------------------
(* Bounds of the model *)

MaxIter == 6          \* largest max_iterations explored
MaxAttempts == 7      \* cap on the invocations of the primary adapter explored
MaxSignals == 1       \* signals delivered to the process
MaxInterval == 2      \* largest checkpoint_interval explored
MaxCalls == 3         \* aexecute calls on one adapter
MaxTerminals == 2     \* terminals the agent creates
MaxUpdates == 2       \* session/update notifications between two resets
MaxRequests == 2      \* permission requests handled
MaxOutput == 2        \* characters the command of a terminal writes
MaxLines == 4         \* lines of a prompt text
MaxRollups == 3       \* update_context and add_error_feedback calls on one assembler
MaxSends == 3         \* send_request calls on one client
MaxHistory == 6       \* calls on one assembler when its lists are to overflow

(* Program constants *)

ErrorResetLimit == 5            \* _handle_error: reset when errors > 5
RollbackAfter == 3              \* _handle_failure: rollback when failed_iterations > 3
consecutive_failure_limit == 3  \* SafetyGuard(consecutive_failure_limit=3)

----------------------------------------------------------------------------
(* The prompt file and the completion marker.  A line is a sequence of     *)
(* tokens; " " and "\t" are the whitespace str.strip() removes.            *)

Whitespace == {" ", "\t"}

RECURSIVE LStrip(_)
LStrip(line) ==
    IF line # <<>> /\ Head(line) \in Whitespace THEN LStrip(Tail(line)) ELSE line

RECURSIVE RStrip(_)
RStrip(line) ==
    IF line # <<>> /\ line[Len(line)] \in Whitespace
    THEN RStrip(SubSeq(line, 1, Len(line) - 1))
    ELSE line

Strip(line) == RStrip(LStrip(line))

MarkerDash  == <<"-", " ", "[x]", " ", "TASK_COMPLETE">>
MarkerPlain == <<"[x]", " ", "TASK_COMPLETE">>

IsMarkerLine(line) == Strip(line) \in {MarkerDash, MarkerPlain}

\* _check_completion_marker comparing the raw line, without strip()
CheckCompletionMarkerRaw(file) ==
    /\ file.exists
    /\ file.readable
    /\ \E i \in 1..Len(file.lines) : file.lines[i] \in {MarkerDash, MarkerPlain}

\* _check_completion_marker, line 729-751
CheckCompletionMarker(file) ==
    IF ~file.exists THEN FALSE
    ELSE IF ~file.readable THEN FALSE      \* read_text raised: logged, False
    ELSE \E i \in 1..Len(file.lines) : IsMarkerLine(file.lines[i])

Heading   == <<"#", " ", "Task">>
Unchecked == <<"-", " ", "[ ]", " ", "TASK_COMPLETE">>
LowerCase == <<"-", " ", "[x]", " ", "task_complete">>
Trailing  == <<"[x]", " ", "TASK_COMPLETE", " ", "soon">>
Indented  == <<" ", " ", "-", " ", "[x]", " ", "TASK_COMPLETE", "\t">>
PlainText == <<"TASK_COMPLETE">>

File(ls) == [exists |-> TRUE, readable |-> TRUE, lines |-> ls]
MissingFile == [exists |-> FALSE, readable |-> FALSE, lines |-> <<>>]
UnreadableFile == [exists |-> TRUE, readable |-> FALSE, lines |-> <<MarkerDash>>]

\* Files without a marker line, and files with one.
OpenFiles == { File(<<Heading, Unchecked>>), File(<<LowerCase, Trailing, PlainText>>),
               File(<<>>), MissingFile, UnreadableFile }
DoneFiles == { File(<<Heading, MarkerDash>>), File(<<MarkerPlain, Heading>>),
               File(<<Heading, Indented, Unchecked>>) }
PromptFiles == OpenFiles \cup DoneFiles

\* The file holds a marker line: some line is a marker with nothing but
\* whitespace before and after it.
HoldsMarker(file) ==
    /\ file.exists
    /\ file.readable
    /\ \E n \in 1..Len(file.lines) :
         LET line == file.lines[n]
         IN \E i \in 1..Len(line) : \E j \in i..Len(line) :
              /\ SubSeq(line, i, j) \in {MarkerDash, MarkerPlain}
              /\ \A k \in 1..Len(line) : (k < i \/ k > j) => line[k] \in Whitespace

----------------------------------------------------------------------------
(* Adapters *)

\* _initialize_adapters: registration order of the adapters that are available
AdapterOrder == <<"claude", "qchat", "gemini", "acp">>

\* Subsequences of AdapterOrder: the registries _initialize_adapters can build
RECURSIVE Registries(_)
Registries(n) ==
    IF n = 0 THEN { <<>> }
    ELSE LET shorter == Registries(n - 1)
         IN shorter \cup { Append(r, AdapterOrder[n]) : r \in shorter }

Range(s) == { s[i] : i \in 1..Len(s) }

\* hasattr(self.current_adapter, 'kill_subprocess_sync'): ACPAdapter defines it
HasKillSubprocessSync(a) == a = "acp"

\* hasattr(self.current_adapter, '_cleanup_transport'): ACPAdapter does not
HasCleanupTransport(a) == FALSE

----------------------------------------------------------------------------
(* SafetyGuard.check(iterations, elapsed, total_cost); cost tracking is    *)
(* off (track_costs = False), so the cost handed in is 0.                  *)

SafetyCheckPassed(iterations, elapsed_up, failures) ==
    /\ iterations < max_iterations
    /\ ~elapsed_up
    /\ failures < consecutive_failure_limit

----------------------------------------------------------------------------
(* Initial states *)

NewMetrics == [iterations |-> 0, successful_iterations |-> 0,
               failed_iterations |-> 0, errors |-> 0]

\* IterationStats(max_preview_length=n), or None when telemetry is off
NewIterationStats(on, n) == [enabled |-> on, max_preview_length |-> n, iterations |-> <<>>]

\* CostTracker(), or None when costs are not tracked
NewCostTracker(on) == [enabled |-> on, usage_history |-> 0, costs_by_tool |-> {}]

\* The rollups of a new ContextManager, and after reset() (context.py 209-214)
NewContext == [dynamic_context |-> 0, error_history |-> 0, success_patterns |-> 0]

\* ACPSession(session_id): no output, no thoughts, no tool calls
EmptySession == [output |-> <<>>, thoughts |-> <<>>, tool_calls |-> <<>>]

\* No ToolResponse has been returned yet
NoResponse == [success |-> FALSE, output |-> <<>>, error |-> "none", metadata |-> <<>>]

\* No session/prompt has been answered yet
NoReply == [kind |-> "none", stop |-> "none", msg |-> "none"]

\* No permission request has been handled yet
NoRequest == [operation |-> <<>>, options |-> <<>>]
NoPermissionReply == [outcome |-> "none", optionId |-> "none"]
NoTerminalRequest == [method |-> "none", terminalId |-> 0, arg |-> "-"]
NoTerminalReply == [kind |-> "none"]

\* The paths of the model below the root: /d and /d/e
Paths == { <<"d">>, <<"d", "e">> }
Absent == [kind |-> "absent", text |-> <<>>]
Directory == [kind |-> "dir", text |-> <<>>]
FileNode(text) == [kind |-> "file", text |-> text]
NoFileRequest == [method |-> "none", path |-> "missing", parts |-> <<>>,
                  has_content |-> FALSE, content |-> <<>>]
NoFileReply == [kind |-> "none"]
NoWrite == [parts |-> <<>>, content |-> <<>>]

\* ACPHandlers.__init__, acp_handlers.py line 199-219
InitHandlers(mode, patterns, tty) ==
    /\ permission_mode = mode
    /\ allowlist = patterns
    /\ stdin_tty = tty
    /\ history = <<>>
    /\ history_copy = <<>>
    /\ permission_reply = NoPermissionReply
    /\ last_request = NoRequest
    /\ requests_handled = 0
    /\ output_buffer = << >>
    /\ pipe = << >>
    /\ terminal_request = NoTerminalRequest
    /\ terminal_reply = NoTerminalReply
    /\ fs = [p \in Paths |-> Absent]
    /\ fs_request = NoFileRequest
    /\ fs_reply = NoFileReply
    /\ last_write = NoWrite

\* The fields of a new ACPAdapter
InitAdapterState ==
    /\ acp_pc = "idle"
    /\ acp_client_ref = FALSE
    /\ client_state = "none"
    /\ acp_process = "none"
    /\ acp_initialized = FALSE
    /\ acp_session_id = 0
    /\ shutdown_requested = FALSE
    /\ terminals = << >>
    /\ agent_sessions = 0
    /\ term_count = 0
    /\ acp_calls = 0
    /\ wire = <<>>
    /\ handshake = "none"
    /\ granted_sid = 0
    /\ acp_result = "none"
    /\ acp_response = NoResponse
    /\ session = EmptySession
    /\ arrivals = <<>>
    /\ late_updates = FALSE
    /\ last_reply = NoReply
    /\ shutdown_kind = "none"

\* ACPAdapter.__init__, line 75-90, with the default permission mode
InitAdapter ==
    /\ InitAdapterState
    /\ InitHandlers("auto_approve", <<>>, FALSE)

\* The fields of a new RalphOrchestrator that change during a run
InitDriverState ==
    /\ runtime_up = FALSE
    /\ pc = "idle"
    /\ stop_requested = FALSE
    /\ metrics = NewMetrics
    /\ consecutive_failures = 0
    /\ fb_idx = 0
    /\ exit_reason = "none"
    /\ loop_detected = FALSE
    /\ guard_has_output = FALSE
    /\ last_response_output = 0
    /\ trigger_reason = "none"
    /\ iteration_stats = NewIterationStats(iteration_telemetry, output_preview_length)
    /\ cost_tracker = NewCostTracker(track_costs)
    /\ context = NewContext
    /\ archives = 0
    /\ sig_pc = 0
    /\ signals = 0
    /\ handler_log = <<>>
    /\ logger_latch = FALSE
    /\ cancel_pending = FALSE
    /\ attempts = 0
    /\ invoked = <<>>
    /\ outcomes = <<>>
    /\ iteration_result = "none"
    /\ fail_streak = 0
    /\ started_after_stop = FALSE
    /\ start_file = MissingFile

InitRun ==
    /\ InitAdapter
    /\ InitDriverState

\* The context assembler used on its own is not in use: no prompt text
NoAssembler ==
    /\ cm_max = 8000
    /\ cm_text = <<>>
    /\ cm_prefix = <<>>
    /\ cm_dynamic = <<>>
    /\ cm_errors = <<>>
    /\ cm_success = <<>>
    /\ cm_cached = FALSE
    /\ cm_updates = 0
    /\ cm_asked = FALSE
    /\ cm_prompt = <<>>
    /\ cm_inputs = [calls |-> 0, outputs |-> {}, errors |-> {}]
    /\ cm_added = [dynamic |-> <<>>, errors |-> <<>>, success |-> <<>>, last |-> "none"]

\* The subprocess client used on its own is not in use: never started
NoClient ==
    /\ cl_state = "none"
    /\ cl_request_id = 0
    /\ cl_pending = {}
    /\ cl_futures = <<>>
    /\ cl_unwritten = <<>>
    /\ cl_frames = <<>>

\* No orchestrator is looked at for its construction alone
NoOrchestrator == orc = [style |-> "none"]

InitLibraries ==
    /\ NoAssembler
    /\ NoClient
    /\ NoOrchestrator

\* A run without telemetry and cost tracking, with short outputs
PlainRun ==
    /\ iteration_telemetry = FALSE
    /\ output_preview_length = 500
    /\ track_costs = FALSE
    /\ output_kinds = {"short"}

\* The registries with their possible primary tools
Registrations ==
    UNION { { [adapters |-> r, primary_tool |-> r[i]] : i \in 1..Len(r) } :
              r \in Registries(Len(AdapterOrder)) }

OpenFile == File(<<Heading, Unchecked>>)
DoneFile == File(<<Heading, MarkerDash>>)

\* The loop under every iteration ceiling
Init ==
    /\ max_iterations \in 1..MaxIter
    /\ checkpoint_interval = MaxInterval
    /\ adapters = <<"claude", "acp">>
    /\ primary_tool = "claude"
    /\ async_logger = TRUE
    /\ running_task \in BOOLEAN
    /\ file_choices = {OpenFile, DoneFile}
    /\ prompt_file = OpenFile
    /\ PlainRun
    /\ InitLibraries
    /\ InitRun

\* The loop head under every prompt file
InitMarker ==
    /\ max_iterations \in {1, RollbackAfter + 1}
    /\ checkpoint_interval = 1
    /\ adapters = <<"claude", "acp">>
    /\ primary_tool = "claude"
    /\ async_logger = TRUE
    /\ running_task \in BOOLEAN
    /\ file_choices = PromptFiles
    /\ prompt_file \in PromptFiles
    /\ PlainRun
    /\ InitLibraries
    /\ InitRun

\* The iteration under every registry of adapters and every primary tool
InitFallback ==
    /\ max_iterations \in {1, RollbackAfter + 1}
    /\ checkpoint_interval = 1
    /\ \E reg \in Registrations :
         /\ adapters = reg.adapters
         /\ primary_tool = reg.primary_tool
    /\ async_logger = TRUE
    /\ running_task \in BOOLEAN
    /\ file_choices = {OpenFile}
    /\ prompt_file = OpenFile
    /\ PlainRun
    /\ InitLibraries
    /\ InitRun

\* The loop with telemetry and cost tracking on, outputs of both sizes, and
\* an iteration ceiling that leaves room for a success before six errors
InitTelemetry ==
    /\ max_iterations = MaxIter + 1
    /\ checkpoint_interval = MaxInterval
    /\ adapters = <<"claude", "acp">>
    /\ primary_tool = "claude"
    /\ async_logger = FALSE
    /\ running_task = TRUE
    /\ file_choices = {OpenFile}
    /\ prompt_file = OpenFile
    /\ iteration_telemetry = TRUE
    /\ output_preview_length = 100
    /\ track_costs = TRUE
    /\ output_kinds = {"short", "long_error"}
    /\ InitLibraries
    /\ InitRun

\* A short run whose successful responses may come without an output
InitOutput ==
    /\ max_iterations = MaxIter - 2
    /\ checkpoint_interval = MaxInterval
    /\ adapters = <<"claude", "acp">>
    /\ primary_tool = "claude"
    /\ async_logger = FALSE
    /\ running_task = TRUE
    /\ file_choices = {OpenFile}
    /\ prompt_file = OpenFile
    /\ iteration_telemetry = TRUE
    /\ output_preview_length = 100
    /\ track_costs = TRUE
    /\ output_kinds = {"short", "empty"}
    /\ InitLibraries
    /\ InitRun

\* The signal handler under every combination of what it acts on
InitSignal ==
    /\ max_iterations \in {1, RollbackAfter + 1}
    /\ checkpoint_interval = 1
    /\ adapters \in { <<"claude", "gemini", "acp">>, <<"acp">> }
    /\ primary_tool \in Range(adapters)
    /\ async_logger \in BOOLEAN
    /\ running_task \in BOOLEAN
    /\ file_choices = {OpenFile}
    /\ prompt_file = OpenFile
    /\ PlainRun
    /\ InitLibraries
    /\ InitRun

----------------------------------------------------------------------------
(* The driver: RalphOrchestrator.arun *)

\* Where the driver task is suspended in an await
Awaiting == {"primary", "fallback", "backoff", "rollback", "checkpoint", "sleep"}

\* A step of the driver task: it runs only between handlers, and a
\* cancelled task does not resume normally.
DriverTurn == sig_pc = 0 /\ ~cancel_pending

\* The loop may go on: while-condition (309), safety check (311-319) and
\* marker check (322-325)
LoopGoesOn ==
    /\ ~stop_requested
    /\ SafetyCheckPassed(metrics.iterations, runtime_up, consecutive_failures)
    /\ ~CheckCompletionMarker(prompt_file)

\* Why the loop ends, in the order arun tests it
ExitReason ==
    IF stop_requested THEN "stop"
    ELSE IF ~SafetyCheckPassed(metrics.iterations, runtime_up, consecutive_failures)
         THEN "safety"
    ELSE "marker"

\* _determine_trigger_reason comparing the successful iterations with all
\* iterations counted so far
DetermineTriggerReasonAll(m) ==
    IF m.iterations = 0 THEN "initial"
    ELSE IF m.failed_iterations > 0 /\ 2 * m.failed_iterations > m.iterations
         THEN "recovery"
    ELSE IF m.successful_iterations = m.iterations THEN "previous_success"
    ELSE "task_incomplete"

\* _determine_trigger_reason, line 753-782, on the counters m; the failure
\* rate failed_iterations / max(1, iterations) > 0.5 in whole numbers
DetermineTriggerReason(m) ==
    IF m.iterations = 0 THEN "initial"
    ELSE IF /\ m.failed_iterations > 0
            /\ 2 * m.failed_iterations > (IF m.iterations > 1 THEN m.iterations ELSE 1)
         THEN "recovery"
    ELSE IF m.successful_iterations = m.iterations - 1 THEN "previous_success"
    ELSE "task_incomplete"

\* The loop head without `self.metrics.iterations += 1`
LoopHeadNoCount ==
    IF LoopGoesOn
    THEN /\ attempts' = attempts + 1
         /\ invoked' = <<primary_tool>>
         /\ outcomes' = <<>>
         /\ started_after_stop' = (started_after_stop \/ stop_requested)
         /\ pc' = "primary"
         /\ trigger_reason' = DetermineTriggerReason(metrics)
         /\ UNCHANGED <<metrics, exit_reason>>
    ELSE /\ pc' = "done"
         /\ exit_reason' = ExitReason
         /\ UNCHANGED <<metrics, attempts, invoked, outcomes, started_after_stop,
                        trigger_reason>>

\* arun, line 309-342, and _aexecute_iteration up to the await of the primary
\* adapter (449): one pass of the loop head, which ends the loop or starts
\* an iteration
LoopHead ==
    IF LoopGoesOn
    THEN /\ trigger_reason' = DetermineTriggerReason(metrics)
         /\ metrics' = [metrics EXCEPT !.iterations = @ + 1]
         /\ attempts' = attempts + 1
         /\ invoked' = <<primary_tool>>
         /\ outcomes' = <<>>
         /\ started_after_stop' = (started_after_stop \/ stop_requested)
         /\ pc' = "primary"
         /\ UNCHANGED exit_reason
    ELSE /\ pc' = "done"
         /\ exit_reason' = ExitReason
         /\ UNCHANGED <<metrics, attempts, invoked, outcomes, started_after_stop,
                        trigger_reason>>

\* arun is called: line 299-308, then the first pass of the loop head
Start ==
    /\ pc = "idle"
    /\ DriverTurn
    /\ start_file' = prompt_file
    /\ LoopHead
    /\ UNCHANGED <<cfg_vars, prompt_file, runtime_up, stop_requested,
                   consecutive_failures, fb_idx, loop_detected, guard_has_output, sig_vars,
                   iteration_result, fail_streak, cost_tracker, context, archives,
                   iteration_stats>>
    /\ UNCHANGED last_response_output
    /\ UNCHANGED acp_vars
    /\ UNCHANGED hdl_vars
    /\ UNCHANGED lib_vars

\* asyncio.sleep(2) of line 421 returns: the next pass of the loop head
SleepDone ==
    /\ pc = "sleep"
    /\ DriverTurn
    /\ attempts < MaxAttempts
    /\ LoopHead
    /\ UNCHANGED <<cfg_vars, prompt_file, runtime_up, stop_requested,
                   consecutive_failures, fb_idx, loop_detected, guard_has_output, sig_vars,
                   iteration_result, fail_streak, start_file, cost_tracker, context,
                   archives, iteration_stats>>
    /\ UNCHANGED last_response_output
    /\ UNCHANGED acp_vars
    /\ UNCHANGED hdl_vars
    /\ UNCHANGED lib_vars

\* The for loop without the test `adapter != self.current_adapter`
NextFallbackAny(i) == IF i < Len(adapters) THEN i + 1 ELSE 0

\* First adapter after position i of adapters.items() that is not the
\* current adapter (0: there is none): line 457 and 460
NextFallback(i) ==
    LET later == { j \in (i + 1)..Len(adapters) : adapters[j] # primary_tool }
    IN IF later = {} THEN 0 ELSE CHOOSE j \in later : \A k \in later : j <= k

\* _aexecute_iteration, line 455: a failed primary response is followed by fallbacks
FallbackAllowed == Len(adapters) > 1 /\ ~stop_requested

\* The for loop without `if self.stop_requested: break`
FallbackContinuesAnyway(i) == NextFallback(i) # 0

\* line 457-460: the for loop reaches another adapter after position i
FallbackContinues(i) == ~stop_requested /\ NextFallback(i) # 0

\* line 370-371: a checkpoint is due
CheckpointDue == metrics.iterations % checkpoint_interval = 0

\* line 416-421: after the telemetry the loop is left when the guard has
\* found the outputs repetitive, else the driver sleeps
AfterTelemetry(detected) == IF detected THEN "done" ELSE "sleep"

\* SafetyGuard.detect_loop, called at line 357 with the output of a
\* successful iteration: it can find the output repetitive only when its
\* window holds an earlier one
DetectLoop == IF guard_has_output THEN BOOLEAN ELSE {FALSE}

\* IterationStats.record_iteration as arun calls it at line 405-414; None
\* records nothing (398)
RecordIteration(stats, n, reason, result, preview) ==
    IF stats.enabled
    THEN [stats EXCEPT !.iterations =
             Append(@, [iteration |-> n, success |-> (result = "success"),
                        error |-> (result = "error"), trigger_reason |-> reason,
                        attempt |-> attempts, output_preview |-> preview])]
    ELSE stats

\* arun, line 384-414, reached when the try statement is left towards the
\* sleep or the break (next_pc): the iteration is recorded with the trigger
\* reason determined at the loop head
RecordTelemetry(next_pc, stats, m, result, preview) ==
    iteration_stats' = (IF next_pc \in {"sleep", "done"}
                        THEN RecordIteration(stats, m.iterations, trigger_reason, result,
                                             preview)
                        ELSE stats)

\* CostTracker.add_usage(tool, ...), called at line 480-490 for a
\* successful response
AddUsage(tracker, tool) ==
    IF tracker.enabled
    THEN [tracker EXCEPT !.usage_history = @ + 1, !.costs_by_tool = @ \cup {tool}]
    ELSE tracker

\* line 487: the name given to add_usage is `self.current_adapter.name`
UsageTool == primary_tool

\* line 470-471: a successful response with an output replaces
\* self.last_response_output, any other response leaves it
StoreOutput(success, kind) ==
    IF success /\ kind # "empty" THEN attempts ELSE last_response_output

Capped(n, cap) == IF n > cap THEN cap ELSE n

\* ContextManager.update_context (context.py 177-202), called at line 494-495
\* for an output of more than 1000 characters; "long_error": one of its lines
\* holds the word error
UpdateContext(c, kind) ==
    IF kind \in {"short", "empty"} THEN c
    ELSE [c EXCEPT !.dynamic_context = Capped(@ + 1, 5),
                   !.error_history = IF kind = "long_error" THEN Capped(@ + 1, 5) ELSE @]

\* _aexecute_iteration returned `success`: line 466-505 after the calls, and
\* arun, line 344-372, up to the next await
EndIteration(success) ==
    /\ iteration_result' = (IF success THEN "success" ELSE "failure")
    /\ fail_streak' = (IF success THEN 0 ELSE fail_streak + 1)
    /\ IF success
       THEN /\ metrics' = [metrics EXCEPT !.successful_iterations = @ + 1]
            /\ cost_tracker' = AddUsage(cost_tracker, UsageTool)
            /\ \E kind \in output_kinds :
                 /\ context' = UpdateContext(context, kind)
                 /\ last_response_output' = StoreOutput(TRUE, kind)
            /\ IF last_response_output' # 0
               THEN \* line 351-357: detect_loop(self.last_response_output)
                    /\ loop_detected' \in DetectLoop
                    /\ guard_has_output' = TRUE
               ELSE /\ loop_detected' = FALSE
                    /\ UNCHANGED guard_has_output
            /\ pc' = (IF CheckpointDue THEN "checkpoint"
                      ELSE AfterTelemetry(loop_detected'))
            /\ exit_reason' = (IF pc' = "done" THEN "loop" ELSE exit_reason)
       ELSE /\ metrics' = [metrics EXCEPT !.failed_iterations = @ + 1]
            /\ pc' = "backoff"      \* _handle_failure: await asyncio.sleep(backoff)
            /\ last_response_output' = StoreOutput(FALSE, "empty")
            /\ UNCHANGED <<loop_detected, guard_has_output, exit_reason,
                           cost_tracker, context>>
    /\ RecordTelemetry(pc', iteration_stats, metrics', iteration_result',
                       last_response_output')
    /\ UNCHANGED <<trigger_reason, archives>>

\* A reset that keeps the iteration count
ResetStateKeepsCount == [NewMetrics EXCEPT !.iterations = metrics.iterations]

\* _reset_state, line 598-608 (the counters of Metrics())
ResetState == NewMetrics

\* _handle_error, line 524-534, after errors += 1 (line 379)
HandleError(m) == IF m.errors > ErrorResetLimit THEN ResetState ELSE m

\* _reset_state, line 602-608: what it does to the telemetry store, the
\* cost tracker and the rollups
\* The store replaced by IterationStats() with its default preview length
ResetStatsDefault(stats) ==
    IF iteration_telemetry THEN NewIterationStats(TRUE, 500) ELSE stats

ResetStats(stats) ==
    IF iteration_telemetry THEN NewIterationStats(TRUE, output_preview_length) ELSE stats
ResetCosts(tracker) == IF tracker.enabled THEN NewCostTracker(TRUE) ELSE tracker
ResetContext == NewContext

\* _archive_prompt, line 584-596: a prompt file that is there is copied; a
\* failure of the copy is logged
ArchivePrompt(n, file) == IF file.exists /\ file.readable THEN n + 1 ELSE n

\* The body of the iteration raised: arun, line 377-382, then 384-421
RaiseInIteration ==
    LET counted == [metrics EXCEPT !.errors = @ + 1]
        reset == counted.errors > ErrorResetLimit
    IN /\ iteration_result' = "error"
       /\ archives' = ArchivePrompt(archives, prompt_file')
       /\ metrics' = HandleError(counted)
       /\ cost_tracker' = (IF reset THEN ResetCosts(cost_tracker) ELSE cost_tracker)
       /\ context' = (IF reset THEN ResetContext ELSE context)
       /\ pc' = "sleep"
       /\ RecordTelemetry(pc', IF reset THEN ResetStats(iteration_stats)
                                ELSE iteration_stats, metrics', "error",
                          last_response_output)
       /\ UNCHANGED <<fail_streak, loop_detected, guard_has_output, exit_reason,
                      trigger_reason, last_response_output>>

\* What an aexecute call can do: return success, return failure, raise
CallResults == {"ok", "fail", "raise"}

\* The primary adapter's aexecute (line 449) is over.  While it ran the
\* agent may have rewritten the prompt file, and time has passed.
PrimaryReturns ==
    /\ pc = "primary"
    /\ DriverTurn
    /\ \E result \in CallResults, file \in file_choices, late \in BOOLEAN :
         /\ prompt_file' = file
         /\ runtime_up' = (runtime_up \/ late)
         /\ outcomes' = Append(outcomes, result)
         /\ CASE result = "raise" ->
                   /\ RaiseInIteration
                   /\ UNCHANGED <<fb_idx, invoked, started_after_stop>>
              [] result = "ok" ->
                   /\ EndIteration(TRUE)
                   /\ UNCHANGED <<fb_idx, invoked, started_after_stop>>
              [] result = "fail" /\ FallbackAllowed /\ FallbackContinues(0) ->
                   /\ fb_idx' = NextFallback(0)
                   /\ invoked' = Append(invoked, adapters[NextFallback(0)])
                   /\ started_after_stop' = (started_after_stop \/ stop_requested)
                   /\ pc' = "fallback"
                   /\ UNCHANGED <<metrics, iteration_result, fail_streak,
                                  loop_detected, guard_has_output, exit_reason,
                                  tel_vars, last_response_output>>
              [] result = "fail" /\ ~(FallbackAllowed /\ FallbackContinues(0)) ->
                   /\ EndIteration(FALSE)
                   /\ UNCHANGED <<fb_idx, invoked, started_after_stop>>
    /\ UNCHANGED <<cfg_vars, stop_requested, consecutive_failures, sig_vars,
                   attempts, start_file>>
    /\ UNCHANGED acp_vars
    /\ UNCHANGED hdl_vars
    /\ UNCHANGED lib_vars

\* A fallback adapter's aexecute (line 462) is over
FallbackReturns ==
    /\ pc = "fallback"
    /\ DriverTurn
    /\ \E result \in CallResults, file \in file_choices, late \in BOOLEAN :
         /\ prompt_file' = file
         /\ runtime_up' = (runtime_up \/ late)
         /\ outcomes' = Append(outcomes, result)
         /\ CASE result = "raise" ->
                   /\ RaiseInIteration
                   /\ UNCHANGED <<fb_idx, invoked, started_after_stop>>
              [] result = "ok" ->
                   /\ EndIteration(TRUE)
                   /\ UNCHANGED <<fb_idx, invoked, started_after_stop>>
              [] result = "fail" /\ FallbackContinues(fb_idx) ->
                   /\ fb_idx' = NextFallback(fb_idx)
                   /\ invoked' = Append(invoked, adapters[NextFallback(fb_idx)])
                   /\ started_after_stop' = (started_after_stop \/ stop_requested)
                   /\ pc' = "fallback"
                   /\ UNCHANGED <<metrics, iteration_result, fail_streak,
                                  loop_detected, guard_has_output, exit_reason,
                                  tel_vars, last_response_output>>
              [] result = "fail" /\ ~FallbackContinues(fb_idx) ->
                   /\ EndIteration(FALSE)
                   /\ UNCHANGED <<fb_idx, invoked, started_after_stop>>
    /\ UNCHANGED <<cfg_vars, stop_requested, consecutive_failures, sig_vars,
                   attempts, start_file>>
    /\ UNCHANGED acp_vars
    /\ UNCHANGED hdl_vars
    /\ UNCHANGED lib_vars

\* _handle_failure, line 518-522: the backoff sleep is over
BackoffDone ==
    /\ pc = "backoff"
    /\ DriverTurn
    /\ pc' = (IF metrics.failed_iterations > RollbackAfter THEN "rollback"
              ELSE IF CheckpointDue THEN "checkpoint" ELSE "sleep")
    /\ UNCHANGED <<cfg_vars, prompt_file, runtime_up, stop_requested, metrics,
                   consecutive_failures, fb_idx, exit_reason, loop_detected, guard_has_output,
                   sig_vars, hist_vars, run_vars>>
    /\ RecordTelemetry(pc', iteration_stats, metrics, iteration_result,
                       last_response_output)
    /\ UNCHANGED last_response_output
    /\ UNCHANGED acp_vars
    /\ UNCHANGED hdl_vars
    /\ UNCHANGED lib_vars

\* _rollback_checkpoint, line 566-582, is over (git reset done or failed)
RollbackDone ==
    /\ pc = "rollback"
    /\ DriverTurn
    /\ pc' = (IF CheckpointDue THEN "checkpoint" ELSE "sleep")
    /\ UNCHANGED <<cfg_vars, prompt_file, runtime_up, stop_requested, metrics,
                   consecutive_failures, fb_idx, exit_reason, loop_detected, guard_has_output,
                   sig_vars, hist_vars, run_vars>>
    /\ RecordTelemetry(pc', iteration_stats, metrics, iteration_result,
                       last_response_output)
    /\ UNCHANGED last_response_output
    /\ UNCHANGED acp_vars
    /\ UNCHANGED hdl_vars
    /\ UNCHANGED lib_vars

\* _create_checkpoint, line 536-564, is over; telemetry is recorded (384-414)
CheckpointDone ==
    /\ pc = "checkpoint"
    /\ DriverTurn
    /\ pc' = AfterTelemetry(loop_detected)
    /\ exit_reason' = (IF loop_detected THEN "loop" ELSE exit_reason)
    /\ UNCHANGED <<cfg_vars, prompt_file, runtime_up, stop_requested, metrics,
                   consecutive_failures, fb_idx, loop_detected, guard_has_output, sig_vars,
                   hist_vars, run_vars>>
    /\ RecordTelemetry(pc', iteration_stats, metrics, iteration_result,
                       last_response_output)
    /\ UNCHANGED last_response_output
    /\ UNCHANGED acp_vars
    /\ UNCHANGED hdl_vars
    /\ UNCHANGED lib_vars

\* task.cancel() took effect: CancelledError is raised at the await; it is
\* no Exception, so line 377 does not catch it and arun is left
Cancelled ==
    /\ pc \in Awaiting \cup {"idle"}
    /\ sig_pc = 0
    /\ cancel_pending
    /\ pc' = "cancelled"
    /\ exit_reason' = "cancelled"
    /\ cancel_pending' = FALSE
    /\ UNCHANGED <<cfg_vars, prompt_file, runtime_up, stop_requested, metrics,
                   consecutive_failures, fb_idx, loop_detected, guard_has_output, sig_pc, signals,
                   handler_log, logger_latch, hist_vars, tel_vars>>
    /\ UNCHANGED last_response_output
    /\ UNCHANGED acp_vars
    /\ UNCHANGED hdl_vars
    /\ UNCHANGED lib_vars

----------------------------------------------------------------------------
(* The signal handler: _signal_handler (195-228) before arun runs,         *)
(* async_signal_handler (272-290) while it runs.  Same statements.         *)

\* A handler that sets the stop flag before it cleans up
HandlerOrderStopFirst == <<"stop", "kill", "latch", "cancel", "cleanup">>

\* The handler's statements, in the order of the code
HandlerOrder == <<"kill", "latch", "stop", "cancel", "cleanup">>

\* The handler is at statement `what`
HandlerAt(what) == sig_pc \in 1..Len(HandlerOrder) /\ HandlerOrder[sig_pc] = what

\* The handler goes on to its next statement, or returns
HandlerStep == sig_pc' = (IF sig_pc = Len(HandlerOrder) THEN 0 ELSE sig_pc + 1)

\* SIGINT or SIGTERM is delivered
SignalArrives ==
    /\ sig_pc = 0
    /\ signals < MaxSignals
    /\ pc \in Awaiting \cup {"idle"}
    /\ sig_pc' = 1
    /\ signals' = signals + 1
    /\ UNCHANGED <<cfg_vars, prompt_file, runtime_up, stop_requested, loop_vars,
                   handler_log, logger_latch, cancel_pending, hist_vars, tel_vars>>
    /\ UNCHANGED last_response_output
    /\ UNCHANGED acp_vars
    /\ UNCHANGED hdl_vars
    /\ UNCHANGED lib_vars

\* line 208-209, 277-278: kill the current adapter's subprocess
KillSubprocess ==
    /\ HandlerAt("kill")
    /\ handler_log' = (IF HasKillSubprocessSync(primary_tool)
                       THEN Append(handler_log, "kill") ELSE handler_log)
    /\ HandlerStep
    /\ UNCHANGED <<cfg_vars, prompt_file, runtime_up, stop_requested, loop_vars,
                   signals, logger_latch, cancel_pending, hist_vars, tel_vars>>
    /\ UNCHANGED last_response_output
    /\ UNCHANGED acp_vars
    /\ UNCHANGED hdl_vars
    /\ UNCHANGED lib_vars

\* line 212-213, 281-282: emergency shutdown of the async logger
LatchLogger ==
    /\ HandlerAt("latch")
    /\ logger_latch' = (logger_latch \/ async_logger)
    /\ handler_log' = (IF async_logger THEN Append(handler_log, "latch") ELSE handler_log)
    /\ HandlerStep
    /\ UNCHANGED <<cfg_vars, prompt_file, runtime_up, stop_requested, loop_vars,
                   signals, cancel_pending, hist_vars, tel_vars>>
    /\ UNCHANGED last_response_output
    /\ UNCHANGED acp_vars
    /\ UNCHANGED hdl_vars
    /\ UNCHANGED lib_vars

\* line 216, 285: the stop flag
SetStopFlag ==
    /\ HandlerAt("stop")
    /\ stop_requested' = TRUE
    /\ handler_log' = Append(handler_log, "stop")
    /\ HandlerStep
    /\ UNCHANGED <<cfg_vars, prompt_file, runtime_up, loop_vars, signals,
                   logger_latch, cancel_pending, hist_vars, tel_vars>>
    /\ UNCHANGED last_response_output
    /\ UNCHANGED acp_vars
    /\ UNCHANGED hdl_vars
    /\ UNCHANGED lib_vars

\* line 219-220, 286-287: cancel the running task
CancelTask ==
    /\ HandlerAt("cancel")
    /\ cancel_pending' = (cancel_pending \/ running_task)
    /\ handler_log' = (IF running_task THEN Append(handler_log, "cancel") ELSE handler_log)
    /\ HandlerStep
    /\ UNCHANGED <<cfg_vars, prompt_file, runtime_up, stop_requested, loop_vars,
                   signals, logger_latch, hist_vars, tel_vars>>
    /\ UNCHANGED last_response_output
    /\ UNCHANGED acp_vars
    /\ UNCHANGED hdl_vars
    /\ UNCHANGED lib_vars

\* line 223-228, 290: schedule _emergency_cleanup when an event loop runs
ScheduleCleanup ==
    /\ HandlerAt("cleanup")
    /\ handler_log' = (IF pc # "idle" THEN Append(handler_log, "cleanup") ELSE handler_log)
    /\ HandlerStep
    /\ UNCHANGED <<cfg_vars, prompt_file, runtime_up, stop_requested, loop_vars,
                   signals, logger_latch, cancel_pending, hist_vars, tel_vars>>
    /\ UNCHANGED last_response_output
    /\ UNCHANGED acp_vars
    /\ UNCHANGED hdl_vars
    /\ UNCHANGED lib_vars

----------------------------------------------------------------------------
(* Part II.  The ACP adapter: adapters/acp.py.  ACPClient (acp_client.py)   *)
(* is described by what the adapter and its tests rely on: start() spawns   *)
(* the child, send_request writes a request and fails when the child has    *)
(* exited, stop() terminates the child and rejects what is pending.         *)

Initialize == [method |-> "initialize", sid |-> 0]
SessionNew == [method |-> "session/new", sid |-> 0]
Prompt(sid) == [method |-> "session/prompt", sid |-> sid]

\* An adapter that runs the handshake on every call
AlwaysInitialize == TRUE

\* aexecute, line 661, and _initialize, line 215: the handshake is run
NeedsInitialize == ~acp_initialized

\* ACPClient.stop() on self._client
StopClient ==
    /\ client_state' = (IF client_state \in {"running", "stopped"} THEN "stopped"
                        ELSE client_state)
    /\ acp_process' = (IF acp_process = "alive" THEN "dead" ELSE acp_process)

\* aexecute, line 670-681: an exception becomes a response with no output
\* and no metadata
FailureResponse(err) ==
    [success |-> FALSE, output |-> <<>>, error |-> err, metadata |-> <<>>]

\* aexecute returns `response`
Returns(kind, response) == acp_result' = kind /\ acp_response' = response

\* aexecute goes on, or no call is in progress
NoReturn == UNCHANGED <<acp_result, acp_response>>

\* A prompt that goes on with what the session holds
SessionKept(s) == s

\* _execute_prompt, line 515-517: `self._session.reset()`, the content is
\* emptied and the session id kept
SessionForPrompt(s) == EmptySession

\* _execute_prompt, line 516-538: the session/prompt request is sent, or
\* send_request fails because the child has exited
SendPrompt(sid, sent) ==
    /\ session' = SessionForPrompt(session)
    /\ arrivals' = <<>>
    /\ late_updates' = FALSE
    /\ IF acp_process' = "alive"
       THEN /\ wire' = Append(sent, Prompt(sid))
            /\ acp_pc' = "prompting"
            /\ NoReturn
       ELSE /\ wire' = sent
            /\ acp_pc' = "idle"
            /\ Returns("not_running", FailureResponse("not_running"))

\* aexecute is called: line 642-668, up to its first await
AExecute ==
    /\ acp_pc = "idle"
    /\ acp_calls < MaxCalls
    /\ acp_calls' = acp_calls + 1
    /\ shutdown_kind' = "none"
    /\ IF NeedsInitialize
       THEN \* _initialize, line 247-281: a new client, start(), initialize
            \E spawned \in BOOLEAN :
              /\ acp_client_ref' = TRUE
              /\ granted_sid' = 0
              /\ UNCHANGED <<session, arrivals,
                   late_updates>>
              /\ IF spawned
                 THEN /\ client_state' = "running"
                      /\ acp_process' = "alive"
                      /\ wire' = <<Initialize>>
                      /\ handshake' = "pending"
                      /\ acp_pc' = "initializing"
                      /\ NoReturn
                 ELSE /\ client_state' = "unstarted"
                      /\ acp_process' = "none"
                      /\ wire' = <<>>
                      /\ handshake' = "none"
                      /\ acp_pc' = "idle"
                      /\ Returns("spawn_error", FailureResponse("spawn_error"))
       ELSE /\ UNCHANGED <<acp_client_ref, client_state, acp_process, handshake,
                           granted_sid>>
            /\ SendPrompt(acp_session_id, wire)
    /\ UNCHANGED <<acp_initialized, acp_session_id, shutdown_requested, terminals,
                   agent_sessions, term_count>>
    /\ UNCHANGED <<drv_vars, lib_vars>>
    /\ UNCHANGED last_reply
    /\ UNCHANGED hdl_vars

\* A handshake that leaves the client as it is when a step fails
HandshakeFailsNoStop ==
    /\ UNCHANGED <<client_state, acp_process>>
    /\ handshake' = "failed"
    /\ acp_pc' = "idle"
    /\ Returns("handshake_error", FailureResponse("handshake_error"))
    /\ UNCHANGED <<session, arrivals,
                   late_updates>>
    /\ UNCHANGED wire

\* _initialize, line 307-312: the client is stopped and the error raised,
\* which aexecute (line 670-681) turns into a response with success=False
HandshakeFails ==
    /\ StopClient
    /\ handshake' = "failed"
    /\ acp_pc' = "idle"
    /\ Returns("handshake_error", FailureResponse("handshake_error"))
    /\ UNCHANGED <<session, arrivals,
                   late_updates>>
    /\ UNCHANGED wire

\* What the agent can do with a handshake request
HandshakeReplies == {"ok", "incomplete", "error", "timeout"}

\* A reply other than a full result needs no live child; a result does
Possible(reply) == reply = "ok" => acp_process = "alive"

\* _initialize, line 281-312, after the wait for the initialize response
InitializeReplied ==
    /\ acp_pc = "initializing"
    /\ \E reply \in HandshakeReplies :
         /\ Possible(reply)
         /\ IF reply = "ok"
            THEN \* protocolVersion present: session/new is sent
                 /\ wire' = Append(wire, SessionNew)
                 /\ acp_pc' = "creating"
                 /\ UNCHANGED <<client_state, acp_process, handshake, acp_result,
                                acp_response, session, arrivals,
                   late_updates>>
            ELSE \* timeout, error or no protocolVersion
                 HandshakeFails
    /\ UNCHANGED <<acp_client_ref, acp_initialized, acp_session_id,
                   shutdown_requested, terminals, agent_sessions, term_count,
                   acp_calls, granted_sid, shutdown_kind>>
    /\ UNCHANGED <<drv_vars, lib_vars>>
    /\ UNCHANGED last_reply
    /\ UNCHANGED hdl_vars

\* _initialize, line 295-312, after the wait for the session/new response,
\* and on success _execute_prompt up to its await
SessionNewReplied ==
    /\ acp_pc = "creating"
    /\ \E reply \in HandshakeReplies :
         /\ Possible(reply)
         /\ CASE reply = "ok" ->
                   /\ agent_sessions' = agent_sessions + 1
                   /\ granted_sid' = agent_sessions + 1
                   /\ acp_session_id' = agent_sessions + 1
                   /\ acp_initialized' = TRUE
                   /\ handshake' = "complete"
                   /\ UNCHANGED <<client_state, acp_process>>
                   /\ SendPrompt(agent_sessions + 1, wire)
              [] reply = "incomplete" ->
                   \* no sessionId in the response: line 298-300
                   /\ acp_session_id' = 0
                   /\ HandshakeFails
                   /\ UNCHANGED <<agent_sessions, granted_sid, acp_initialized>>
              [] reply \in {"error", "timeout"} ->
                   /\ HandshakeFails
                   /\ UNCHANGED <<agent_sessions, granted_sid, acp_initialized,
                                  acp_session_id>>
    /\ UNCHANGED <<acp_client_ref, shutdown_requested, terminals, term_count,
                   acp_calls, shutdown_kind>>
    /\ UNCHANGED <<drv_vars, lib_vars>>
    /\ UNCHANGED last_reply
    /\ UNCHANGED hdl_vars

StopReasons == {"end_turn", "cancelled", "error", "missing"}
ErrorMessages == {"boom", "missing"}

\* What can come of a session/prompt request: a result, with or without
\* stopReason and error.message; a rejected future; no answer in time
PromptReplies ==
    { [kind |-> "result", stop |-> st, msg |-> m] :
        st \in StopReasons, m \in ErrorMessages }
    \cup { [kind |-> k, stop |-> "missing", msg |-> "missing"] :
             k \in {"rejected", "timeout"} }

\* line 541: response.get("stopReason", "unknown")
StopReason(reply) == IF reply.stop = "missing" THEN "unknown" ELSE reply.stop

\* A test that also takes a missing stopReason for an error
IsErrorStopOrUnknown(stop_reason) == stop_reason \in {"error", "unknown"}

\* line 542
IsErrorStop(stop_reason) == stop_reason = "error"

\* line 543-544: error_obj.get("message", "Unknown error from agent")
ErrorMessage(reply) ==
    IF reply.msg = "missing" THEN "Unknown error from agent" ELSE reply.msg

\* line 548-558: the response for stopReason "error"
ErrorStopResponse(reply) ==
    [success  |-> FALSE,
     output   |-> session.output,
     error    |-> ErrorMessage(reply),
     metadata |-> [tool |-> "acp", agent |-> "agent_command",
                   session_id |-> acp_session_id,
                   stop_reason |-> StopReason(reply)]]

\* line 561-577: the response for any other stopReason
CompletedResponse(reply) ==
    [success  |-> TRUE,
     output   |-> session.output,
     error    |-> "none",
     metadata |-> [tool |-> "acp", agent |-> "agent_command",
                   session_id |-> acp_session_id,
                   stop_reason |-> StopReason(reply),
                   tool_calls_count |-> Len(session.tool_calls),
                   has_thoughts |-> session.thoughts # <<>>]]

\* line 579-592: the response when the deadline passes
TimeoutResponse ==
    [success  |-> FALSE,
     output   |-> session.output,
     error    |-> "timed out",
     metadata |-> [tool |-> "acp", agent |-> "agent_command",
                   session_id |-> acp_session_id]]

\* A timeout handled like a failed handshake: the client is stopped
TimeoutStopsClient ==
    /\ StopClient
    /\ acp_initialized' = FALSE
    /\ UNCHANGED acp_session_id

\* line 579-592: the timeout touches neither the client nor the session
TimeoutKeepsClient ==
    UNCHANGED <<client_state, acp_process, acp_initialized, acp_session_id>>

\* _execute_prompt, line 538-592, after the wait for the session/prompt
\* response; a rejected future is an exception that aexecute (670-681) catches
PromptReplied ==
    /\ acp_pc = "prompting"
    /\ \E reply \in PromptReplies :
         /\ reply.kind = "result" => acp_process = "alive"
         /\ last_reply' = reply
         /\ CASE reply.kind = "result" /\ IsErrorStop(StopReason(reply)) ->
                   /\ Returns("agent_error", ErrorStopResponse(reply))
                   /\ UNCHANGED <<client_state, acp_process, acp_initialized,
                                  acp_session_id>>
              [] reply.kind = "result" /\ ~IsErrorStop(StopReason(reply)) ->
                   /\ Returns("success", CompletedResponse(reply))
                   /\ UNCHANGED <<client_state, acp_process, acp_initialized,
                                  acp_session_id>>
              [] reply.kind = "rejected" ->
                   /\ Returns("rejected", FailureResponse("rejected"))
                   /\ UNCHANGED <<client_state, acp_process, acp_initialized,
                                  acp_session_id>>
              [] reply.kind = "timeout" ->
                   /\ Returns("timeout", TimeoutResponse)
                   /\ TimeoutKeepsClient
    /\ acp_pc' = "idle"
    /\ UNCHANGED <<acp_client_ref, shutdown_requested, terminals, agent_sessions,
                   term_count, acp_calls, wire, handshake, granted_sid,
                   shutdown_kind, session, arrivals,
                   late_updates>>
    /\ UNCHANGED <<drv_vars, lib_vars>>
    /\ UNCHANGED hdl_vars

\* The agent can reach the handlers: the client runs and the child lives
AgentConnected == client_state = "running" /\ acp_process = "alive"

UpdateKinds == {"agent_message_chunk", "agent_thought_chunk", "tool_call"}
Texts == {<<"a">>, <<"b">>}

\* The params of a session/update notification, in the flat format and in
\* the nested one, whose content is an object with a text or a plain value;
\* message chunks come with either text
Notifications ==
    { n \in [format : {"flat", "nested_object", "nested_value"},
             kind : UpdateKinds, text : Texts] :
        n.kind # "agent_message_chunk" => n.text = <<"a">> }

\* _handle_notification, line 325-343: the payload of either format
UpdatePayload(n) == [kind |-> n.kind, content |-> n.text]

\* ACPSession.process_update: a message chunk is appended to output, a
\* thought chunk to thoughts, a tool call to tool_calls
ProcessUpdate(s, payload) ==
    CASE payload.kind = "agent_message_chunk" ->
           [s EXCEPT !.output = @ \o payload.content]
      [] payload.kind = "agent_thought_chunk" ->
           [s EXCEPT !.thoughts = @ \o payload.content]
      [] payload.kind = "tool_call" ->
           [s EXCEPT !.tool_calls = Append(@, "pending")]

\* The prompt the agent emitted an update for: the one in flight, or one
\* that ended on the host while the agent was still working on it
\* (_execute_prompt, line 579-592: a timeout returns without telling the agent)
UpdateOrigins ==
    IF acp_pc = "prompting"
    THEN {"in_flight"} \cup (IF last_reply.kind = "timeout" THEN {"ended"} ELSE {})
    ELSE {"ended"}

\* _handle_notification, line 314-349: a session/update arrives while the
\* adapter has a session; the params carry nothing that names the prompt
SessionUpdate ==
    /\ AgentConnected
    /\ acp_initialized
    /\ Len(arrivals) < MaxUpdates
    /\ \E n \in Notifications :
         /\ session' = ProcessUpdate(session, UpdatePayload(n))
         /\ arrivals' = Append(arrivals, UpdatePayload(n))
    /\ \E origin \in UpdateOrigins :
         late_updates' = (late_updates \/ (acp_pc = "prompting" /\ origin = "ended"))
    /\ UNCHANGED <<acp_pc, acp_client_ref, client_state, acp_process,
                   acp_initialized, acp_session_id, shutdown_requested,
                   terminals, agent_sessions, term_count, acp_calls, wire,
                   handshake, granted_sid, acp_result, acp_response,
                   shutdown_kind, last_reply>>
    /\ UNCHANGED <<drv_vars, lib_vars>>
    /\ UNCHANGED hdl_vars

TerminalIds == DOMAIN terminals

\* handle_terminal_create, acp_handlers.py line 650-727 (a command that starts)
TerminalCreate ==
    /\ AgentConnected
    /\ term_count < MaxTerminals
    /\ term_count' = term_count + 1
    /\ terminals' = [t \in TerminalIds \cup {term_count + 1} |->
                       IF t \in TerminalIds THEN terminals[t] ELSE "running"]
    /\ output_buffer' = [t \in TerminalIds \cup {term_count + 1} |->
                           IF t \in TerminalIds THEN output_buffer[t] ELSE <<>>]
    /\ pipe' = [t \in TerminalIds \cup {term_count + 1} |->
                  IF t \in TerminalIds THEN pipe[t] ELSE <<>>]
    /\ UNCHANGED <<acp_pc, acp_client_ref, client_state, acp_process,
                   acp_initialized, acp_session_id, shutdown_requested,
                   agent_sessions, acp_calls, wire, handshake, granted_sid,
                   acp_result, acp_response,
                   session, arrivals, late_updates,
                   shutdown_kind>>
    /\ UNCHANGED <<drv_vars, lib_vars>>
    /\ UNCHANGED last_reply
    /\ UNCHANGED <<perm_vars, terminal_request, terminal_reply>>
    /\ UNCHANGED file_vars

\* Terminal.kill, acp_handlers.py line 98-106
Kill(state) == "exited"

\* handle_terminal_kill, acp_handlers.py line 817-848
TerminalKill ==
    /\ AgentConnected
    /\ \E t \in TerminalIds :
         terminals' = [terminals EXCEPT ![t] = Kill(@)]
    /\ UNCHANGED <<acp_pc, acp_client_ref, client_state, acp_process,
                   acp_initialized, acp_session_id, shutdown_requested,
                   agent_sessions, term_count, acp_calls, wire, handshake,
                   granted_sid, acp_result, acp_response,
                   session, arrivals, late_updates,
                   shutdown_kind>>
    /\ UNCHANGED <<drv_vars, lib_vars>>
    /\ UNCHANGED last_reply
    /\ UNCHANGED hdl_vars

\* handle_terminal_release, acp_handlers.py line 850-889
TerminalRelease ==
    /\ AgentConnected
    /\ \E t \in TerminalIds :
         /\ terminals' = [u \in TerminalIds \ {t} |-> terminals[u]]
         /\ output_buffer' = [u \in TerminalIds \ {t} |-> output_buffer[u]]
         /\ pipe' = [u \in TerminalIds \ {t} |-> pipe[u]]
    /\ UNCHANGED <<acp_pc, acp_client_ref, client_state, acp_process,
                   acp_initialized, acp_session_id, shutdown_requested,
                   agent_sessions, term_count, acp_calls, wire, handshake,
                   granted_sid, acp_result, acp_response,
                   session, arrivals, late_updates,
                   shutdown_kind>>
    /\ UNCHANGED <<drv_vars, lib_vars>>
    /\ UNCHANGED last_reply
    /\ UNCHANGED <<perm_vars, terminal_request, terminal_reply>>
    /\ UNCHANGED file_vars

\* The command of a terminal ends by itself
TerminalExits ==
    /\ \E t \in TerminalIds :
         /\ terminals[t] = "running"
         /\ terminals' = [terminals EXCEPT ![t] = "exited"]
    /\ UNCHANGED <<acp_pc, acp_client_ref, client_state, acp_process,
                   acp_initialized, acp_session_id, shutdown_requested,
                   agent_sessions, term_count, acp_calls, wire, handshake,
                   granted_sid, acp_result, acp_response,
                   session, arrivals, late_updates,
                   shutdown_kind>>
    /\ UNCHANGED <<drv_vars, lib_vars>>
    /\ UNCHANGED last_reply
    /\ UNCHANGED hdl_vars

\* _shutdown, line 599-605: handle_terminal_kill for every terminal of the table
KillAllTerminals == [t \in TerminalIds |-> Kill(terminals[t])]

\* A shutdown that leaves the flag as it is
InitializedKept(initialized) == initialized

\* _shutdown, line 611: `self._initialized = False`
InitializedAfterShutdown(initialized) == FALSE

\* _shutdown, line 594-613.  A call in progress gets its request rejected
\* by stop() and returns a failure.
Shutdown ==
    /\ shutdown_kind # "shutdown"
    /\ terminals' = KillAllTerminals
    /\ IF acp_client_ref THEN StopClient ELSE UNCHANGED <<client_state, acp_process>>
    /\ acp_client_ref' = FALSE
    /\ acp_initialized' = InitializedAfterShutdown(acp_initialized)
    /\ acp_session_id' = 0
    /\ IF acp_pc = "idle"
       THEN UNCHANGED <<acp_pc, acp_result, acp_response, handshake>>
       ELSE /\ acp_pc' = "idle"
            /\ Returns("shutdown", FailureResponse("shutdown"))
            /\ handshake' = (IF acp_pc = "prompting" THEN handshake ELSE "failed")
    /\ shutdown_kind' = "shutdown"
    /\ session' = EmptySession
    /\ arrivals' = <<>>
    /\ late_updates' = FALSE
    /\ UNCHANGED <<shutdown_requested, agent_sessions, term_count, acp_calls,
                   wire, granted_sid>>
    /\ UNCHANGED <<drv_vars, lib_vars>>
    /\ UNCHANGED last_reply
    /\ UNCHANGED hdl_vars

\* kill_subprocess_sync, line 167-200
KillSubprocessSync == IF acp_client_ref /\ acp_process = "alive" THEN "dead" ELSE acp_process

\* SIGINT or SIGTERM with an ACP adapter in the process.  Standalone, the
\* adapter's own _signal_handler (line 146-165) runs: flag, kill, chain.
\* Under the orchestrator, whose handlers replace it, the orchestrator calls
\* kill_subprocess_sync (orchestrator.py line 208-209) and schedules
\* _emergency_cleanup (230-247), which finds no _cleanup_transport on an
\* ACPAdapter and does nothing.
SignalShutdown ==
    /\ shutdown_kind # "signal"
    /\ \E own_handler \in BOOLEAN :
         shutdown_requested' = (shutdown_requested \/ own_handler)
    /\ acp_process' = KillSubprocessSync
    /\ shutdown_kind' = "signal"
    /\ UNCHANGED <<acp_pc, acp_client_ref, client_state, acp_initialized,
                   acp_session_id, terminals, agent_sessions, term_count,
                   acp_calls, wire, handshake, granted_sid, acp_result, acp_response,
                   session, arrivals,
                   late_updates>>
    /\ UNCHANGED <<drv_vars, lib_vars>>
    /\ UNCHANGED last_reply
    /\ UNCHANGED hdl_vars

Adapter == \/ AExecute
           \/ InitializeReplied
           \/ SessionNewReplied
           \/ PromptReplied
           \/ TerminalCreate
           \/ TerminalKill
           \/ TerminalRelease
           \/ TerminalExits
           \/ Shutdown
           \/ SignalShutdown

----------------------------------------------------------------------------

----------------------------------------------------------------------------
(* Part III.  The handlers of the agent's requests: adapters/acp_handlers.py. *)
(* A string is a sequence of characters.                                    *)

\* Operation names: fs/read, fs/write, terminal/create in short, and the
\* empty name of a request without "operation" (line 149)
Operations == { <<"f", "/", "r">>, <<"f", "/", "w">>, <<"t", "/", "c">>, <<>> }

\* Allowlist patterns: exact, glob, /regex/, a regex that does not compile,
\* and the single slash
Patterns ==
    { <<"f", "/", "r">>,
      <<"f", "/", "*">>,
      <<"?", "/", "c">>,
      <<"/", "^", "t", "/">>,
      <<"/", "f", "/", "w", "$", "/">>,
      <<"/", "(", "/">>,
      <<"/">> }

\* Lists of no, one and two patterns; a list of two starts with the exact
\* pattern, which matches one operation only
Allowlists ==
    {<<>>} \cup { <<p>> : p \in Patterns }
           \cup { << <<"f", "/", "r">>, q >> : q \in Patterns }

\* fnmatch.fnmatch(operation, pattern) with * and ?
RECURSIVE GlobMatch(_, _)
GlobMatch(operation, pattern) ==
    IF pattern = <<>> THEN operation = <<>>
    ELSE IF Head(pattern) = "*"
         THEN \/ GlobMatch(operation, Tail(pattern))
              \/ operation # <<>> /\ GlobMatch(Tail(operation), pattern)
    ELSE IF operation = <<>> THEN FALSE
    ELSE /\ Head(pattern) = "?" \/ Head(pattern) = Head(operation)
         /\ GlobMatch(Tail(operation), Tail(pattern))

IsPrefix(a, b) == Len(a) <= Len(b) /\ SubSeq(b, 1, Len(a)) = a

\* re.match(regex_pattern, operation) for a regex of literal characters with
\* an optional ^ in front and $ at the end; re.match is anchored at the
\* start only.  A "(" without its ")" does not compile: re.error.
RegexCompiles(regex) == "(" \notin Range(regex)

RegexMatch(regex, operation) ==
    LET body == IF regex # <<>> /\ Head(regex) = "^" THEN Tail(regex) ELSE regex
    IN IF body # <<>> /\ body[Len(body)] = "$"
       THEN operation = SubSeq(body, 1, Len(body) - 1)
       ELSE IsPrefix(body, operation)

\* _matches_pattern, line 351-375
MatchesPattern(operation, pattern) ==
    IF pattern # <<>> /\ Head(pattern) = "/" /\ pattern[Len(pattern)] = "/"
    THEN LET regex_pattern == SubSeq(pattern, 2, Len(pattern) - 1)
         IN RegexCompiles(regex_pattern) /\ RegexMatch(regex_pattern, operation)
    ELSE IF "*" \in Range(pattern) \/ "?" \in Range(pattern)
         THEN GlobMatch(operation, pattern)
    ELSE operation = pattern

PermissionResult(approved, reason, mode) ==
    [approved |-> approved, reason |-> reason, mode |-> mode]

\* An allowlist of which only the first pattern is tried
EvaluateAllowlistFirst(operation, patterns) ==
    IF patterns # <<>> /\ MatchesPattern(operation, Head(patterns))
    THEN PermissionResult(TRUE, <<"matches allowlist pattern", Head(patterns)>>,
                          "allowlist")
    ELSE PermissionResult(FALSE, <<"no matching allowlist pattern">>, "allowlist")

\* _evaluate_allowlist, line 321-349: the first pattern that matches approves
RECURSIVE EvaluateAllowlist(_, _)
EvaluateAllowlist(operation, patterns) ==
    IF patterns = <<>>
    THEN PermissionResult(FALSE, <<"no matching allowlist pattern">>, "allowlist")
    ELSE IF MatchesPattern(operation, Head(patterns))
         THEN PermissionResult(TRUE, <<"matches allowlist pattern", Head(patterns)>>,
                               "allowlist")
    ELSE EvaluateAllowlist(operation, Tail(patterns))

\* What the user can type at the [y/N] prompt, or end of input
UserInputs == {"y", " Yes ", "n", "", "eof"}

\* input(...).strip().lower() of line 401
Typed(input) ==
    CASE input = " Yes " -> "yes"
      [] OTHER -> input

\* _evaluate_interactive, line 376-420
EvaluateInteractive(input) ==
    IF ~stdin_tty
    THEN PermissionResult(FALSE, <<"no terminal available for interactive mode">>,
                          "interactive")
    ELSE IF input = "eof"
         THEN PermissionResult(FALSE, <<"input interrupted">>, "interactive")
    ELSE IF Typed(input) \in {"y", "yes"}
         THEN PermissionResult(TRUE, <<"user approved">>, "interactive")
    ELSE PermissionResult(FALSE, <<"user denied">>, "interactive")

PermissionModes == {"auto_approve", "deny_all", "allowlist", "interactive"}

\* _evaluate_permission, line 285-319
EvaluatePermission(operation, input) ==
    CASE permission_mode = "auto_approve" ->
           PermissionResult(TRUE, <<"auto_approve mode">>, "auto_approve")
      [] permission_mode = "deny_all" ->
           PermissionResult(FALSE, <<"deny_all mode">>, "deny_all")
      [] permission_mode = "allowlist" -> EvaluateAllowlist(operation, allowlist)
      [] permission_mode = "interactive" -> EvaluateInteractive(input)

\* The options a request offers; an option may come without an id
Option(type, id) == [type |-> type, id |-> id]
OptionLists ==
    { <<>>,
      <<Option("reject", "r1"), Option("allow", "a1")>>,
      <<Option("reject", "r1"), Option("other", "o1")>>,
      <<Option("allow", "missing"), Option("allow", "a2")>> }

\* line 257-262: the id of the first option of type allow, None without one
\* or when that option has no id
RECURSIVE FirstAllowId(_)
FirstAllowId(options) ==
    IF options = <<>> THEN "missing"
    ELSE IF Head(options).type = "allow" THEN Head(options).id
    ELSE FirstAllowId(Tail(options))

\* An answer that always names the first option
SelectedOptionIdFirst(options) ==
    IF options # <<>> /\ Head(options).id # "missing" THEN Head(options).id
    ELSE "proceed_once"

\* line 255-269: the optionId of an approval
SelectedOptionId(options) ==
    IF FirstAllowId(options) # "missing" THEN FirstAllowId(options)
    ELSE IF options # <<>>
         THEN (IF Head(options).id = "missing" THEN "proceed_once"
               ELSE Head(options).id)
    ELSE "proceed_once"

\* line 272-284: the result returned to the client
PermissionReply(result, options) ==
    IF result.approved
    THEN [outcome |-> "selected", optionId |-> SelectedOptionId(options)]
    ELSE [outcome |-> "cancelled", optionId |-> "none"]

\* A handler that records only what it approved
RecordApproved(entries, entry) ==
    IF entry.result.approved THEN Append(entries, entry) ELSE entries

\* line 249: self._history.append((request, result))
Record(entries, entry) == Append(entries, entry)

\* handle_request_permission, line 231-283
HandleRequestPermission ==
    /\ requests_handled < MaxRequests
    /\ requests_handled' = requests_handled + 1
    /\ \E operation \in Operations, options \in OptionLists, input \in UserInputs :
         LET request == [operation |-> operation, options |-> options]
             result  == EvaluatePermission(operation, input)
         IN /\ history' = Record(history, [request |-> request, result |-> result])
            /\ permission_reply' = PermissionReply(result, options)
            /\ last_request' = request
    /\ UNCHANGED <<permission_mode, allowlist, stdin_tty, history_copy>>
    /\ UNCHANGED <<term_vars, file_vars>>
    /\ UNCHANGED <<drv_vars, acp_vars, lib_vars>>

\* get_history, line 473-479: a copy of the list
GetHistory ==
    /\ history_copy' = history
    /\ UNCHANGED <<permission_mode, allowlist, stdin_tty, history,
                   permission_reply, last_request, requests_handled>>
    /\ UNCHANGED <<term_vars, file_vars>>
    /\ UNCHANGED <<drv_vars, acp_vars, lib_vars>>

\* What a caller can do to the list it got: empty it, reverse it
ListChanges(list) ==
    { <<>>, [i \in 1..Len(list) |-> list[Len(list) + 1 - i]] }

\* The caller changes the list that get_history returned
ChangeCopy ==
    /\ history_copy # <<>>
    /\ history_copy' \in ListChanges(history_copy) \ {history_copy}
    /\ UNCHANGED <<permission_mode, allowlist, stdin_tty, history,
                   permission_reply, last_request, requests_handled>>
    /\ UNCHANGED <<term_vars, file_vars>>
    /\ UNCHANGED <<drv_vars, acp_vars, lib_vars>>

\* get_approved_count and get_denied_count, line 485-499
GetApprovedCount == Cardinality({ i \in 1..Len(history) : history[i].result.approved })
GetDeniedCount == Cardinality({ i \in 1..Len(history) : ~history[i].result.approved })

Permissions == \/ HandleRequestPermission
               \/ GetHistory
               \/ ChangeCopy

----------------------------------------------------------------------------
(* The terminal handlers, acp_handlers.py line 650-889.  A request of the   *)
(* agent is put in terminal_request and its handler answers it.             *)

\* The "command" of terminal/create: absent, not a list, an empty list, a
\* list for which Popen raises FileNotFoundError, PermissionError or another
\* OSError, and a list for which it starts a process
Commands == {"missing", "not_list", "empty", "not_found", "denied", "os_error",
             "starts"}

\* The "terminalId" of a request: 0 for none, otherwise an id, in the table
\* or not
RequestIds == 0..(MaxTerminals + 1)

TerminalRequests ==
    { [method |-> "create", terminalId |-> 0, arg |-> c] : c \in Commands }
    \cup { [method |-> m, terminalId |-> t, arg |-> "-"] :
             m \in {"output", "kill", "release"}, t \in RequestIds }
    \cup { [method |-> "wait_for_exit", terminalId |-> t, arg |-> a] :
             t \in RequestIds, a \in {"timeout", "no_timeout"} }

\* The agent sends a terminal request once the one before is answered
AgentAsks ==
    /\ terminal_request = NoTerminalRequest \/ terminal_reply # NoTerminalReply
    /\ terminal_request' \in TerminalRequests
    /\ (terminal_request'.method = "create" /\ terminal_request'.arg = "starts")
         => term_count < MaxTerminals
    /\ terminal_reply' = NoTerminalReply
    /\ UNCHANGED <<output_buffer, pipe, perm_vars>>
    /\ UNCHANGED file_vars
    /\ UNCHANGED <<drv_vars, acp_vars, lib_vars>>

Pending(method) ==
    terminal_request.method = method /\ terminal_reply = NoTerminalReply

ErrorReply(code) == [kind |-> "error", code |-> code]

Put(table, id, value) ==
    [t \in DOMAIN table \cup {id} |-> IF t = id THEN value ELSE table[t]]
\* A release that leaves the entry where it is
RemoveNothing(table, id) == table
\* line 888: del self._terminals[terminal_id]
Remove(table, id) == [t \in DOMAIN table \ {id} |-> table[t]]

\* line 662-699: Popen returns a process
Started(command) == command = "starts"

\* line 662-686 and 710-731: the error code of a create that fails
CreateError(command) ==
    CASE command \in {"missing", "not_list", "empty"} -> -32602
      [] command = "not_found" -> -32001
      [] command = "denied" -> -32003
      [] OTHER -> -32000

\* handle_terminal_create, line 650-731; uuid4 gives an id not given before
HandleTerminalCreate ==
    /\ Pending("create")
    /\ IF Started(terminal_request.arg)
       THEN LET terminal_id == term_count + 1
            IN /\ term_count' = term_count + 1
               /\ terminals' = Put(terminals, terminal_id, "running")
               /\ output_buffer' = Put(output_buffer, terminal_id, <<>>)
               /\ pipe' = Put(pipe, terminal_id, <<>>)
               /\ terminal_reply' = [kind |-> "created", terminalId |-> terminal_id]
       ELSE /\ terminal_reply' = ErrorReply(CreateError(terminal_request.arg))
            /\ UNCHANGED <<term_count, terminals, output_buffer, pipe>>
    /\ UNCHANGED <<terminal_request, perm_vars>>
    /\ UNCHANGED file_vars
    /\ UNCHANGED <<drv_vars, conn_vars, lib_vars>>

\* line 745-763 (and the same lines of the other handlers): the answer to a
\* request without terminalId or with one that is not in the table, "found"
\* otherwise
Lookup(terminal_id) ==
    IF terminal_id = 0 THEN ErrorReply(-32602)
    ELSE IF terminal_id \notin TerminalIds THEN ErrorReply(-32001)
    ELSE [kind |-> "found"]

\* An accumulator that holds what was read last
ReadOutputLast(buffer, new_output) == new_output

\* Terminal.read_output, line 66-97: output_buffer += new_output
ReadOutput(buffer, new_output) == buffer \o new_output

\* handle_terminal_output, line 733-769
HandleTerminalOutput ==
    /\ Pending("output")
    /\ LET t == terminal_request.terminalId
       IN IF Lookup(t).kind = "error"
          THEN /\ terminal_reply' = Lookup(t)
               /\ UNCHANGED <<output_buffer, pipe>>
          ELSE /\ output_buffer' = [output_buffer EXCEPT ![t] = ReadOutput(@, pipe[t])]
               /\ pipe' = [pipe EXCEPT ![t] = <<>>]
               /\ terminal_reply' = [kind |-> "output",
                                     output |-> output_buffer'[t],
                                     done |-> terminals[t] # "running"]
    /\ UNCHANGED <<terminal_request, perm_vars>>
    /\ UNCHANGED file_vars
    /\ UNCHANGED <<drv_vars, acp_vars, lib_vars>>

\* handle_terminal_wait_for_exit, line 771-815.  The command of a running
\* terminal ends during the wait, or the timeout of the request expires.
HandleTerminalWaitForExit ==
    /\ Pending("wait_for_exit")
    /\ LET t == terminal_request.terminalId
       IN IF Lookup(t).kind = "error"
          THEN /\ terminal_reply' = Lookup(t)
               /\ UNCHANGED <<terminals, output_buffer, pipe>>
          ELSE \/ /\ terminals' = [terminals EXCEPT ![t] = "exited"]
                  /\ output_buffer' = [output_buffer EXCEPT ![t] = ReadOutput(@, pipe[t])]
                  /\ pipe' = [pipe EXCEPT ![t] = <<>>]
                  /\ terminal_reply' = [kind |-> "exit"]
               \/ /\ terminals[t] = "running"
                  /\ terminal_request.arg = "timeout"
                  /\ terminal_reply' = ErrorReply(-32000)
                  /\ UNCHANGED <<terminals, output_buffer, pipe>>
    /\ UNCHANGED <<terminal_request, perm_vars, term_count>>
    /\ UNCHANGED file_vars
    /\ UNCHANGED <<drv_vars, conn_vars, lib_vars>>

\* handle_terminal_kill, line 817-848
HandleTerminalKill ==
    /\ Pending("kill")
    /\ LET t == terminal_request.terminalId
       IN IF Lookup(t).kind = "error"
          THEN /\ terminal_reply' = Lookup(t)
               /\ UNCHANGED terminals
          ELSE /\ terminals' = [terminals EXCEPT ![t] = Kill(@)]
               /\ terminal_reply' = [kind |-> "success"]
    /\ UNCHANGED <<terminal_request, perm_vars, term_count, output_buffer, pipe>>
    /\ UNCHANGED file_vars
    /\ UNCHANGED <<drv_vars, conn_vars, lib_vars>>

\* handle_terminal_release, line 850-889
HandleTerminalRelease ==
    /\ Pending("release")
    /\ LET t == terminal_request.terminalId
       IN IF Lookup(t).kind = "error"
          THEN /\ terminal_reply' = Lookup(t)
               /\ UNCHANGED <<terminals, output_buffer, pipe>>
          ELSE /\ terminals' = Remove(terminals, t)
               /\ output_buffer' = Remove(output_buffer, t)
               /\ pipe' = Remove(pipe, t)
               /\ terminal_reply' = [kind |-> "success"]
    /\ UNCHANGED <<terminal_request, perm_vars, term_count>>
    /\ UNCHANGED file_vars
    /\ UNCHANGED <<drv_vars, conn_vars, lib_vars>>

\* The command of a running terminal writes its next character to stdout;
\* the k-th character it writes is k
ChildWrites ==
    /\ \E t \in TerminalIds :
         /\ terminals[t] = "running"
         /\ Len(output_buffer[t]) + Len(pipe[t]) < MaxOutput
         /\ pipe' = [pipe EXCEPT
                       ![t] = Append(@, Len(output_buffer[t]) + Len(@) + 1)]
    /\ UNCHANGED <<output_buffer, terminal_request, terminal_reply, perm_vars>>
    /\ UNCHANGED file_vars
    /\ UNCHANGED <<drv_vars, acp_vars, lib_vars>>

Terminals == \/ AgentAsks
             \/ HandleTerminalCreate
             \/ HandleTerminalOutput
             \/ HandleTerminalWaitForExit
             \/ HandleTerminalKill
             \/ HandleTerminalRelease
             \/ ChildWrites
             \/ TerminalExits

----------------------------------------------------------------------------
(* The file handlers, acp_handlers.py line 505-644.  A text is a sequence   *)
(* of characters, of which "CR" and "LF" are the carriage return and the    *)
(* line feed.                                                               *)

Contents == { <<>>, <<"a">>, <<"a", "LF", "b">>, <<"a", "CR", "LF", "b">> }

\* "path" is absent (or empty), relative or absolute; "content" may be absent
FileRequests ==
    { [method |-> "read", path |-> k, parts |-> p,
       has_content |-> FALSE, content |-> <<>>] :
        k \in {"relative", "absolute"}, p \in Paths }
    \cup { [method |-> "write", path |-> k, parts |-> p,
            has_content |-> TRUE, content |-> c] :
             k \in {"relative", "absolute"}, p \in Paths, c \in Contents }
    \cup { [method |-> "write", path |-> "absolute", parts |-> p,
            has_content |-> FALSE, content |-> <<>>] : p \in Paths }
    \cup { [method |-> m, path |-> "missing", parts |-> <<>>,
            has_content |-> m = "write", content |-> <<>>] :
             m \in {"read", "write"} }

\* The agent sends a file request once the one before is answered
AgentAsksFile ==
    /\ fs_request = NoFileRequest \/ fs_reply # NoFileReply
    /\ fs_request' \in FileRequests
    /\ fs_reply' = NoFileReply
    /\ UNCHANGED <<fs, last_write, perm_vars, term_vars>>
    /\ UNCHANGED <<drv_vars, acp_vars, lib_vars>>

FilePending(method) == fs_request.method = method /\ fs_reply = NoFileReply

\* What is at a path; the root is a directory, and nothing is below a path
\* that is not a directory
Node(files, p) == IF p = <<>> THEN Directory ELSE files[p]
Ancestors(p) == { SubSeq(p, 1, k) : k \in 1..(Len(p) - 1) }

\* open(..., "w") with newline=None: "\n" is written as os.linesep (POSIX: "\n")
RECURSIVE WriteText(_)
WriteText(text) ==
    IF text = <<>> THEN <<>>
    ELSE (IF Head(text) = "LF" THEN <<"LF">> ELSE <<Head(text)>>)
           \o WriteText(Tail(text))

\* open(..., "r") with newline=None, universal newlines: "\r\n" and "\r"
\* are read as "\n"
RECURSIVE ReadText(_)
ReadText(text) ==
    IF text = <<>> THEN <<>>
    ELSE IF Head(text) = "CR"
         THEN <<"LF">> \o ReadText(IF Len(text) >= 2 /\ text[2] = "LF"
                                   THEN Tail(Tail(text)) ELSE Tail(text))
         ELSE <<Head(text)>> \o ReadText(Tail(text))

\* handle_read_file, line 505-576
HandleReadFile ==
    /\ FilePending("read")
    /\ fs_reply' =
         IF fs_request.path # "absolute" THEN ErrorReply(-32602)
         ELSE LET node == Node(fs, fs_request.parts)
              IN CASE node.kind = "absent" -> [kind |-> "not_exists"]
                   [] node.kind = "dir" -> ErrorReply(-32002)
                   [] node.kind = "file" ->
                        [kind |-> "content", content |-> ReadText(node.text)]
    /\ UNCHANGED <<fs, fs_request, last_write, perm_vars, term_vars>>
    /\ UNCHANGED <<drv_vars, acp_vars, lib_vars>>

\* line 623-627: mkdir(parents=True, exist_ok=True) of the parent, then
\* write_text
Written(files, p, content) ==
    [q \in Paths |-> IF q = p THEN FileNode(WriteText(content))
                     ELSE IF q \in Ancestors(p) THEN Directory
                     ELSE files[q]]

\* handle_write_file, line 578-644.  mkdir raises FileExistsError, an
\* OSError, when the parent is a file.
HandleWriteFile ==
    /\ FilePending("write")
    /\ LET p == fs_request.parts
       IN IF fs_request.path = "missing" \/ ~fs_request.has_content
               \/ fs_request.path = "relative"
          THEN /\ fs_reply' = ErrorReply(-32602)
               /\ UNCHANGED <<fs, last_write>>
          ELSE IF Node(fs, p).kind = "dir"
          THEN /\ fs_reply' = ErrorReply(-32002)
               /\ UNCHANGED <<fs, last_write>>
          ELSE IF \E q \in Ancestors(p) : Node(fs, q).kind = "file"
          THEN /\ fs_reply' = ErrorReply(-32000)
               /\ UNCHANGED <<fs, last_write>>
          ELSE /\ fs' = Written(fs, p, fs_request.content)
               /\ fs_reply' = [kind |-> "success"]
               /\ last_write' = [parts |-> p, content |-> fs_request.content]
    /\ UNCHANGED <<fs_request, perm_vars, term_vars>>
    /\ UNCHANGED <<drv_vars, acp_vars, lib_vars>>

Files == \/ AgentAsksFile
         \/ HandleReadFile
         \/ HandleWriteFile

----------------------------------------------------------------------------
(* Part IV.  The context assembler: context.py.  A text is a sequence of    *)
(* characters, "\n" the newline; the prompt comes from prompt_text, the     *)
(* prompt file being absent.                                                *)

Rep(c, n) == [i \in 1..n |-> c]

\* s[:k] of Python: a negative k counts from the end
Slice(s, k) ==
    IF k >= 0 THEN SubSeq(s, 1, IF k < Len(s) THEN k ELSE Len(s))
    ELSE SubSeq(s, 1, Len(s) + k)

\* s[k:] of Python, k >= 0
Drop(s, k) == SubSeq(s, k + 1, Len(s))

\* A list that is never cut
EndingAll(s, k) == s

\* s[-k:] of Python, k > 0
Ending(s, k) == IF k < Len(s) THEN SubSeq(s, Len(s) - k + 1, Len(s)) ELSE s

\* word in s
Contains(s, word) ==
    \E i \in 1..(Len(s) - Len(word) + 1) : SubSeq(s, i, i + Len(word) - 1) = word

\* s.split('\n'): the pieces between the newlines of s
SplitLines(s) ==
    LET breaks == { i \in 1..Len(s) : s[i] = "\n" }
        starts == {0} \cup breaks
        ends   == breaks \cup {Len(s) + 1}
        StartOf(k) == CHOOSE i \in starts : Cardinality({ j \in starts : j < i }) = k - 1
        EndOf(k)   == CHOOSE i \in ends : Cardinality({ j \in ends : j < i }) = k - 1
    IN [k \in 1..Cardinality(starts) |-> SubSeq(s, StartOf(k) + 1, EndOf(k) - 1)]

\* '\n'.join(lines)
RECURSIVE JoinLines(_)
JoinLines(lines) ==
    IF lines = <<>> THEN <<>>
    ELSE IF Len(lines) = 1 THEN lines[1]
    ELSE lines[1] \o <<"\n">> \o JoinLines(Tail(lines))

\* s.lower(), on the letters the texts of the model are written with
LowerChar(c) == IF c = "E" THEN "e" ELSE IF c = "C" THEN "c" ELSE c
Lower(s) == [i \in 1..Len(s) |-> LowerChar(s[i])]

\* The words the assembler looks for
WordImportant == <<"I", "M", "P", "O", "R", "T", "A", "N", "T">>
WordERROR == <<"E", "R", "R", "O", "R">>
WordError == <<"e", "r", "r", "o", "r">>
WordSuccess == <<"s", "u", "c", "c", "e", "s", "s">>
WordComplete == <<"c", "o", "m", "p", "l", "e", "t", "e">>
WordDone == <<"d", "o", "n", "e">>
OpenTask == <<"-", " ", "[", " ", "]">>

\* _load_initial_prompt, line 68-82: the leading block of heading lines and
\* of the blank lines among them
RECURSIVE StableLines(_, _)
StableLines(lines, stable) ==
    IF lines = <<>> THEN stable
    ELSE IF IsPrefix(<<"#">>, Head(lines))
         THEN StableLines(Tail(lines), Append(stable, Head(lines)))
    ELSE IF stable # <<>> /\ Strip(Head(lines)) = <<>>
         THEN StableLines(Tail(lines), Append(stable, Head(lines)))
    ELSE IF stable # <<>> THEN stable
    ELSE StableLines(Tail(lines), stable)

\* _load_initial_prompt, line 47-83: the stable prefix of the prompt text;
\* without a prompt it stays None, which `if self.stable_prefix` takes like ""
LoadInitialPrompt(text) ==
    IF text = <<>> THEN <<>> ELSE JoinLines(StableLines(SplitLines(text), <<>>))

\* "<!-- Using cached prefix HASH -->\n" with its hash of 8 digits (line
\* 132-139), "\n<!-- Content truncated -->" (173), and the headings of the
\* two sections (112, 118), each as a text of its length
Sentinel == Rep("c", 37) \o <<"\n">>
Truncated == <<"\n">> \o Rep("t", 26)
PreviousContext == <<"\n", "\n">> \o Rep("p", 19) \o <<"\n">>
RecentErrors == <<"\n", "\n">> \o Rep("r", 25) \o <<"\n">>

\* _summarize_content keeps this line: line 161-167
IsImportant(line) ==
    \/ IsPrefix(<<"#">>, line)
    \/ Contains(line, WordImportant)
    \/ Contains(line, WordERROR)
    \/ IsPrefix(OpenTask, line)

\* _summarize_content, line 154-175
SummarizeContent(content, size) ==
    LET summary == JoinLines(SelectSeq(SplitLines(content), IsImportant))
    IN IF Len(summary) > size
       THEN Slice(summary, size - 100) \o Truncated
       ELSE summary

\* _optimize_prompt, line 124-152, with the stable prefix `prefix`
OptimizePrompt(content, prefix, size) ==
    IF prefix # <<>>
    THEN LET dynamic_part == Drop(content, Len(prefix))
         IN Sentinel \o (IF Len(dynamic_part) > size - 100
                         THEN SummarizeContent(dynamic_part, size)
                         ELSE dynamic_part)
    ELSE SummarizeContent(content, size)

\* base_content with `addition` when the two stay below the size: 113, 119
AddIfRoom(base, addition, size) ==
    IF Len(base) + Len(addition) < size THEN base \o addition ELSE base

\* get_prompt, line 85-122
GetPromptText(text, prefix, dynamic, errors, size) ==
    IF text = <<>> THEN <<>>
    ELSE IF Len(text) > size THEN OptimizePrompt(text, prefix, size)
    ELSE LET with_context ==
                 IF dynamic # <<>>
                 THEN AddIfRoom(text, PreviousContext \o JoinLines(Ending(dynamic, 3)), size)
                 ELSE text
         IN IF errors # <<>>
            THEN AddIfRoom(with_context, RecentErrors \o JoinLines(Ending(errors, 2)), size)
            ELSE with_context

\* ContextManager(prompt_file, max_context_size=size, prompt_text=text),
\* context.py line 17-45, the prompt file absent
NewContextManager(size, text) ==
    /\ cm_max = size
    /\ cm_text = text
    /\ cm_prefix = LoadInitialPrompt(text)
    /\ cm_dynamic = <<>>
    /\ cm_errors = <<>>
    /\ cm_success = <<>>
    /\ cm_cached = FALSE
    /\ cm_updates = 0
    /\ cm_asked = FALSE
    /\ cm_prompt = <<>>
    /\ cm_added = [dynamic |-> <<>>, errors |-> <<>>, success |-> <<>>, last |-> "new"]

\* get_prompt is called
GetPrompt ==
    /\ cm_prompt' = GetPromptText(cm_text, cm_prefix, cm_dynamic, cm_errors, cm_max)
    /\ cm_asked' = TRUE
    /\ cm_added' = [cm_added EXCEPT !.last = "get"]
    /\ UNCHANGED cm_inputs
    /\ cm_cached' = (cm_cached \/ (cm_text # <<>> /\ Len(cm_text) > cm_max /\ cm_prefix # <<>>))
    /\ UNCHANGED <<cm_max, cm_text, cm_prefix, cm_dynamic, cm_errors, cm_success,
                   cm_updates>>
    /\ UNCHANGED <<drv_vars, acp_vars, hdl_vars, cli_vars, ctor_vars>>

HasError(line) == Contains(Lower(line), WordError)
HasSuccess(line) ==
    \/ Contains(Lower(line), WordSuccess)
    \/ Contains(Lower(line), WordComplete)
    \/ Contains(Lower(line), WordDone)

\* What the agent's outputs and the error messages can be
Outputs == { <<"E", "r", "r", "o", "r", "\n", "C", "o", "m", "p", "l", "e", "t", "e">> }
Messages == { <<"m">> }

\* line 182-183: the lines of the output with "error", the first two of them
ErrorLines(output) == Slice(SelectSeq(SplitLines(output), HasError), 2)

\* line 190-192: the first line of the output with one of the three words
SuccessLines(output) == Slice(SelectSeq(SplitLines(output), HasSuccess), 1)

\* line 196-200: the output, or its two ends when it is long
Summary(output) ==
    IF Len(output) > 500
    THEN Slice(output, 200) \o <<".", ".", ".">> \o Ending(output, 200)
    ELSE output

\* update_context(output), line 177-202
UpdateContextCalled ==
    /\ cm_updates < cm_inputs.calls
    /\ \E output \in cm_inputs.outputs :
         LET has_error == Contains(Lower(output), WordError)
             has_success == \/ Contains(Lower(output), WordSuccess)
                            \/ Contains(Lower(output), WordComplete)
         IN /\ cm_errors' =
                  (IF has_error THEN Ending(cm_errors \o ErrorLines(output), 5)
                   ELSE cm_errors)
            /\ cm_success' =
                  (IF has_success THEN Ending(cm_success \o SuccessLines(output), 3)
                   ELSE cm_success)
            /\ cm_dynamic' = Ending(Append(cm_dynamic, Summary(output)), 5)
            /\ cm_added' =
                  [dynamic |-> Append(cm_added.dynamic, Summary(output)),
                   errors  |-> IF has_error THEN cm_added.errors \o ErrorLines(output)
                               ELSE cm_added.errors,
                   success |-> IF has_success THEN cm_added.success \o SuccessLines(output)
                               ELSE cm_added.success,
                   last    |-> "update"]
    /\ cm_updates' = cm_updates + 1
    /\ UNCHANGED <<cm_max, cm_text, cm_prefix, cm_cached, cm_asked, cm_prompt, cm_inputs>>
    /\ UNCHANGED <<drv_vars, acp_vars, hdl_vars, cli_vars, ctor_vars>>

\* add_error_feedback(error), line 204-207
AddErrorFeedback ==
    /\ cm_updates < cm_inputs.calls
    /\ \E error \in cm_inputs.errors :
         LET entry == <<"E", "r", "r", "o", "r", ":", " ">> \o error
         IN /\ cm_errors' = Ending(Append(cm_errors, entry), 5)
            /\ cm_added' = [cm_added EXCEPT !.errors = Append(@, entry),
                                            !.last = "error"]
    /\ cm_updates' = cm_updates + 1
    /\ UNCHANGED <<cm_max, cm_text, cm_prefix, cm_dynamic, cm_success, cm_cached,
                   cm_asked, cm_prompt, cm_inputs>>
    /\ UNCHANGED <<drv_vars, acp_vars, hdl_vars, cli_vars, ctor_vars>>

\* A reset that leaves the error history as it is
ErrorsKept(errors) == errors

\* reset, line 213: `self.error_history = []`
ErrorsAfterReset(errors) == <<>>

\* reset(), line 210-215
ResetCalled ==
    /\ cm_updates < cm_inputs.calls
    /\ cm_dynamic' = <<>>
    /\ cm_errors' = ErrorsAfterReset(cm_errors)
    /\ cm_success' = <<>>
    /\ cm_added' = [dynamic |-> <<>>, errors |-> <<>>, success |-> <<>>, last |-> "reset"]
    /\ cm_updates' = cm_updates + 1
    /\ UNCHANGED <<cm_max, cm_text, cm_prefix, cm_cached, cm_asked, cm_prompt, cm_inputs>>
    /\ UNCHANGED <<drv_vars, acp_vars, hdl_vars, cli_vars, ctor_vars>>

Assembler == \/ GetPrompt
             \/ UpdateContextCalled
             \/ AddErrorFeedback
             \/ ResetCalled

\* The lines the prompt texts of the model are made of: a heading, a blank
\* line, a line of 40 characters, and a line of 50 with the word IMPORTANT
PromptLines == { <<"#", " ", "h">>, <<>>, Rep("x", 40), WordImportant \o Rep("x", 41) }

\* The prompt texts of up to MaxLines lines
PromptTexts ==
    { JoinLines(ls) : ls \in UNION { [1..n -> PromptLines] : n \in 0..MaxLines } }

----------------------------------------------------------------------------
(* Part V: the subprocess client (ACPClient) and its request ids            *)

\* ACPProtocol.create_request: the next id is one more than the last
CreateRequestSame(n) == IF n = 0 THEN 1 ELSE n
CreateRequest(n) == n + 1

\* send_request records the future in the pending-request map under its id
TrackNothing(pending, id) == pending
TrackPending(pending, id) == pending \cup {id}

\* The futures of the requests ids, settled with an outcome where they still
\* wait; a future its caller cancelled stays cancelled
Settle(futures, ids, outcome) ==
    [ i \in 1..Len(futures) |->
        IF futures[i].id \in ids /\ futures[i].state = "pending"
        THEN [futures[i] EXCEPT !.state = outcome, !.settled = @ + 1]
        ELSE futures[i] ]

\* A client after start()
NewClient ==
    /\ cl_state = "running"
    /\ cl_request_id = 0
    /\ cl_pending = {}
    /\ cl_futures = <<>>
    /\ cl_unwritten = <<>>
    /\ cl_frames = <<>>

\* send_request(method, params): allocates the next id, records the future
\* and returns it; the frame is written once the write lock is free
ClientSendRequest ==
    /\ cl_state = "running"
    /\ Len(cl_futures) < MaxSends
    /\ LET id == CreateRequest(cl_request_id) IN
        /\ cl_request_id' = id
        /\ cl_pending' = TrackPending(cl_pending, id)
        /\ cl_futures' = Append(cl_futures, [id |-> id, state |-> "pending", settled |-> 0])
        /\ cl_unwritten' = Append(cl_unwritten, id)
    /\ UNCHANGED <<cl_state, cl_frames>>
    /\ UNCHANGED <<drv_vars, acp_vars, hdl_vars, ctx_vars, ctor_vars>>

\* The write lock goes to the request that has waited longest
ClientWrites ==
    /\ cl_state = "running"
    /\ cl_unwritten # <<>>
    /\ cl_frames' = Append(cl_frames, Head(cl_unwritten))
    /\ cl_unwritten' = Tail(cl_unwritten)
    /\ UNCHANGED <<cl_state, cl_request_id, cl_pending, cl_futures>>
    /\ UNCHANGED <<drv_vars, acp_vars, hdl_vars, ctx_vars, ctor_vars>>

\* The reader routes a response or an error response of the child: one with
\* the id of a pending request settles its future and removes the entry
ResponseArrives ==
    /\ cl_state = "running"
    /\ \E id \in Range(cl_frames), kind \in {"result", "error"} :
        IF id \in cl_pending
        THEN /\ cl_futures' = Settle(cl_futures, {id}, kind)
             /\ cl_pending' = cl_pending \ {id}
        ELSE UNCHANGED <<cl_futures, cl_pending>>
    /\ UNCHANGED <<cl_state, cl_request_id, cl_unwritten, cl_frames>>
    /\ UNCHANGED <<drv_vars, acp_vars, hdl_vars, ctx_vars, ctor_vars>>

\* asyncio.wait_for(future, timeout) of a caller runs out: the future is
\* cancelled, the pending-request map is not touched
DeadlineExpires ==
    /\ cl_state = "running"
    /\ \E i \in 1..Len(cl_futures) :
        /\ cl_futures[i].state = "pending"
        /\ cl_futures' = [cl_futures EXCEPT ![i].state = "cancelled"]
    /\ UNCHANGED <<cl_state, cl_request_id, cl_pending, cl_unwritten, cl_frames>>
    /\ UNCHANGED <<drv_vars, acp_vars, hdl_vars, ctx_vars, ctor_vars>>

\* stop(): the reader is cancelled, the child ends, and every future still
\* in the pending-request map fails with the shutdown error
ClientStop ==
    /\ cl_state = "running"
    /\ cl_state' = "stopped"
    /\ cl_futures' = Settle(cl_futures, cl_pending, "shutdown")
    /\ cl_pending' = {}
    /\ cl_unwritten' = <<>>
    /\ UNCHANGED <<cl_request_id, cl_frames>>
    /\ UNCHANGED <<drv_vars, acp_vars, hdl_vars, ctx_vars, ctor_vars>>

Client == \/ ClientSendRequest
          \/ ClientWrites
          \/ ResponseArrives
          \/ DeadlineExpires
          \/ ClientStop

----------------------------------------------------------------------------
(* Part VI: RalphOrchestrator.__init__ and the settings of its components   *)

\* __init__, line 40, 41 and 43: the defaults of the keyword parameters
DefaultMaxIterations == 100
DefaultMaxRuntime == 14400
DefaultMaxCost == 10

\* The keyword parameters a caller can pass, the defaults among them
KeywordChoices ==
    [max_iterations : {DefaultMaxIterations, MaxIter},
     max_runtime    : {DefaultMaxRuntime, 60},
     track_costs    : BOOLEAN,
     max_cost       : {DefaultMaxCost, 5}]

\* The configuration objects a caller can pass
ConfigChoices ==
    [max_iterations : {DefaultMaxIterations, MaxIter},
     max_runtime    : {DefaultMaxRuntime, 60},
     max_cost       : {0, 5}]

\* __init__, line 73-100: the effective settings, from the configuration
\* object when there is one, else from the keyword parameters
Settings(style, kw, config) ==
    IF style = "config"
    THEN [max_iterations |-> config.max_iterations,
          max_runtime    |-> config.max_runtime,
          track_costs    |-> config.max_cost > 0,
          max_cost       |-> config.max_cost]
    ELSE [max_iterations |-> kw.max_iterations,
          max_runtime    |-> kw.max_runtime,
          track_costs    |-> kw.track_costs,
          max_cost       |-> kw.max_cost]

\* __init__, line 107: `CostTracker() if track_costs else None`, and line
\* 108: `SafetyGuard(max_iterations, max_runtime, max_cost)`, both built
\* from the keyword parameters
Components(kw) ==
    [cost_tracker |-> kw.track_costs,
     safety_guard |-> [max_iterations |-> kw.max_iterations,
                       max_runtime    |-> kw.max_runtime,
                       max_cost       |-> kw.max_cost]]

\* RalphOrchestrator(...) is called with keyword parameters or with a
\* configuration object
Construct ==
    /\ \E style \in {"keywords", "config"}, kw \in KeywordChoices, config \in ConfigChoices :
         orc' = [style |-> style, self |-> Settings(style, kw, config),
                 parts |-> Components(kw), passed |-> kw]
    /\ UNCHANGED <<drv_vars, acp_vars, hdl_vars, ctx_vars, cli_vars>>

Constructor == \/ Construct

\* The driver and the adapter at rest, as when a class is used on its own
AtRest ==
    /\ max_iterations = 1
    /\ checkpoint_interval = 1
    /\ adapters = <<"acp">>
    /\ primary_tool = "acp"
    /\ async_logger = FALSE
    /\ running_task = FALSE
    /\ file_choices = {OpenFile}
    /\ prompt_file = OpenFile
    /\ PlainRun
    /\ InitRun

\* A context assembler for every prompt text, under a small and a larger size
InitContext ==
    /\ AtRest
    /\ \E size \in {60, 150}, text \in PromptTexts : NewContextManager(size, text)
    /\ cm_inputs = [calls |-> MaxRollups, outputs |-> Outputs, errors |-> Messages]
    /\ NoClient
    /\ NoOrchestrator

\* Outputs and messages that fill the three lists with entries that differ
RollupOutputs ==
    { <<"E", "r", "r", "o", "r", "\n", "e", "r", "r", "o", "r", "\n", "E", "R", "R", "O", "R",
        "\n", "C", "o", "m", "p", "l", "e", "t", "e">>,
      <<"d", "o", "n", "e", "\n", "s", "u", "c", "c", "e", "s", "s">> }
RollupMessages == { <<"m">> }

\* An assembler over a short source, called more often than its lists are long
InitRollup ==
    /\ AtRest
    /\ \E text \in { <<"#", " ", "h">>, <<"t", "\n", "#", " ", "h">> } :
         NewContextManager(150, text)
    /\ cm_inputs = [calls |-> MaxHistory, outputs |-> RollupOutputs,
                    errors |-> RollupMessages]
    /\ NoClient
    /\ NoOrchestrator

\* A started client used on its own
InitClient ==
    /\ AtRest
    /\ NoAssembler
    /\ NewClient
    /\ NoOrchestrator

\* Nothing constructed yet
InitConstruct ==
    /\ AtRest
    /\ NoAssembler
    /\ NoClient
    /\ NoOrchestrator

\* ACPHandlers built with any mode and allowlist
InitPermission ==
    /\ max_iterations = 1
    /\ checkpoint_interval = 1
    /\ adapters = <<"acp">>
    /\ primary_tool = "acp"
    /\ async_logger = FALSE
    /\ running_task = FALSE
    /\ file_choices = {OpenFile}
    /\ prompt_file = OpenFile
    /\ PlainRun
    /\ InitLibraries
    /\ InitDriverState
    /\ InitAdapterState
    /\ \E mode \in PermissionModes, patterns \in Allowlists, tty \in BOOLEAN :
         /\ mode # "allowlist" => patterns \in {<<>>, << <<"f", "/", "*">> >>}
         /\ mode # "interactive" => ~tty
         /\ InitHandlers(mode, patterns, tty)

\* An ACP adapter used on its own, as its tests do: no run is in progress
InitACP ==
    /\ max_iterations = 1
    /\ checkpoint_interval = 1
    /\ adapters = <<"acp">>
    /\ primary_tool = "acp"
    /\ async_logger = FALSE
    /\ running_task = FALSE
    /\ file_choices = {OpenFile}
    /\ prompt_file = OpenFile
    /\ PlainRun
    /\ InitLibraries
    /\ InitRun

Driver == \/ Start
          \/ SleepDone
          \/ PrimaryReturns
          \/ FallbackReturns
          \/ BackoffDone
          \/ RollbackDone
          \/ CheckpointDone
          \/ Cancelled

Handler == \/ SignalArrives
           \/ KillSubprocess
           \/ LatchLogger
           \/ SetStopFlag
           \/ CancelTask
           \/ ScheduleCleanup

Next == Driver \/ Handler

NextACP == Adapter

NextPermission == Permissions
NextTerminal == Terminals
NextFiles == Files
NextContext == Assembler
NextClient == Client
NextConstruct == Constructor

\* The adapter with the session updates of its agent, and no terminals
NextSession == \/ AExecute
               \/ InitializeReplied
               \/ SessionNewReplied
               \/ PromptReplied
               \/ SessionUpdate
               \/ Shutdown

Spec == Init /\ [][Next]_vars
SpecACP == InitACP /\ [][NextACP]_vars
SpecSession == InitACP /\ [][NextSession]_vars
SpecPermission == InitPermission /\ [][NextPermission]_vars
SpecTerminal == InitACP /\ [][NextTerminal]_vars
SpecFiles == InitACP /\ [][NextFiles]_vars
SpecMarker == InitMarker /\ [][Next]_vars
SpecFallback == InitFallback /\ [][Next]_vars
SpecSignal == InitSignal /\ [][Next]_vars
SpecTelemetry == InitTelemetry /\ [][Next]_vars
SpecOutput == InitOutput /\ [][Next]_vars
SpecContext == InitContext /\ [][NextContext]_vars
SpecClient == InitClient /\ [][NextClient]_vars
SpecRollup == InitRollup /\ [][NextContext]_vars
SpecConstruct == InitConstruct /\ [][NextConstruct]_vars

----------------------------------------------------------------------------
(* Properties of the driver *)

\* The loop head runs in this step
TickRuns == pc \in {"idle", "sleep"} /\ pc' \notin {pc, "cancelled"}

\* C1: a tick that starts with the completion marker in the prompt file
\* leaves the loop without invoking an adapter and without counting an
\* iteration; a run that starts with the marker ends with iterations = 0.
C1_MarkerEndsLoop ==
    /\ [][ (TickRuns /\ HoldsMarker(prompt_file))
            => /\ pc' = "done"
               /\ attempts' = attempts
               /\ invoked' = invoked
               /\ metrics'.iterations = metrics.iterations ]_vars
    /\ []( (pc # "idle" /\ HoldsMarker(start_file))
            => (metrics.iterations = 0 /\ attempts = 0 /\ invoked = <<>>) )

\* The agent checked the indented marker off during the first iteration and
\* the second tick ended the loop on it.
C1_Witness ==
    /\ pc = "done"
    /\ exit_reason = "marker"
    /\ attempts = 1
    /\ prompt_file = File(<<Heading, Indented, Unchecked>>)

\* C2: the primary adapter is invoked in at most max_iterations ticks of a run.
C2_AttemptsBounded == attempts <= max_iterations

C4_FailureLimitEndsLoop ==
    /\ consecutive_failures = fail_streak
    /\ pc \in {"primary", "fallback"} => fail_streak < consecutive_failure_limit

IsFallback(a) == a # primary_tool

\* The adapters other than the primary, in registration order
Remaining == SelectSeq(adapters, IsFallback)

\* Every call of the current iteration has returned, the last one without raising
IterationOver ==
    /\ Len(invoked) >= 1
    /\ Len(outcomes) = Len(invoked)
    /\ outcomes[Len(outcomes)] # "raise"

\* C6: the primary adapter is invoked first; after its failure the others
\* are invoked in registration order, each only after the one before it
\* failed; the first success ends the iteration and is its result; the
\* iteration fails when all have failed (unless a stop request cut it short).
C6_FallbackOrder ==
    IterationOver =>
        LET n == Len(invoked) IN
        /\ invoked[1] = primary_tool
        /\ n - 1 <= Len(Remaining)
        /\ SubSeq(invoked, 2, n) = SubSeq(Remaining, 1, n - 1)
        /\ \A i \in 1..(n - 1) : outcomes[i] = "fail"
        /\ outcomes[n] = "ok" => iteration_result = "success"
        /\ outcomes[n] = "fail" =>
             /\ iteration_result = "failure"
             /\ ~stop_requested => n = Len(adapters)

C6_Witness ==
    /\ ~stop_requested
    /\ adapters = AdapterOrder
    /\ primary_tool = "gemini"
    /\ invoked = <<"gemini", "claude", "qchat">>
    /\ outcomes = <<"fail", "fail", "ok">>
    /\ iteration_result = "success"

\* The order in which the code lists the shutdown steps
ShutdownSteps == <<"kill", "latch", "stop", "cancel", "cleanup">>

StepNo(what) == CHOOSE i \in 1..Len(ShutdownSteps) : ShutdownSteps[i] = what

OutOfOrder == { i \in 1..(Len(handler_log) - 1) :
                  StepNo(handler_log[i + 1]) <= StepNo(handler_log[i]) }

\* C7: the shutdown steps of a handler happen in the order kill, latch,
\* stop flag, cancel, cleanup; so whenever stop_requested is set the kill
\* has been issued (for an adapter that owns a subprocess) and the logger's
\* latch is set (when a logger is attached).
C7_ShutdownOrder ==
    /\ Cardinality(OutOfOrder) <= (IF signals = 0 THEN 0 ELSE signals - 1)
    /\ stop_requested =>
         /\ HasKillSubprocessSync(primary_tool) =>
              \E i \in 1..Len(handler_log) : handler_log[i] = "kill"
         /\ async_logger => logger_latch

C7_Witness ==
    /\ stop_requested
    /\ sig_pc = 0
    /\ handler_log = <<"kill", "latch", "stop", "cancel", "cleanup">>
    /\ logger_latch

----------------------------------------------------------------------------
(* Properties of the ACP adapter *)

\* The client made last is stopped, at the least in that its child no longer runs
ClientStopped == acp_process # "alive"

NoTerminalRuns == \A t \in TerminalIds : terminals[t] # "running"

\* C8: after a shutdown of the ACP adapter, by _shutdown() or by a signal and
\* from any lifecycle state, every terminal of the handler table has been
\* killed and the client has been stopped.
C8_ShutdownKillsTerminals ==
    shutdown_kind # "none" => NoTerminalRuns /\ ClientStopped

PromptSent == \E i \in 1..Len(wire) : wire[i].method = "session/prompt"

\* C9: when a step of the handshake fails (initialize or session/new times
\* out or errors, or the response lacks protocolVersion or sessionId), the
\* client is stopped, aexecute returns success=false and the adapter stays
\* uninitialized; no session/prompt is sent to a client whose handshake has
\* not completed.
C9_FailedHandshake ==
    /\ handshake = "failed" =>
         /\ client_state = "stopped"
         /\ acp_process # "alive"
         /\ acp_pc = "idle"
         /\ acp_result \notin {"none", "success"}
         /\ ~acp_initialized
         /\ ~PromptSent
    /\ PromptSent => handshake = "complete"

\* A handshake that failed at session/new, after initialize had succeeded
C9_Witness ==
    /\ handshake = "failed"
    /\ acp_result = "handshake_error"
    /\ wire = <<Initialize, SessionNew>>
    /\ acp_calls >= 2

\* C10: while the adapter is initialized, its client has been sent initialize
\* and session/new exactly once, in this order and before any session/prompt,
\* and every session/prompt carries the sessionId that session/new returned.
C10_OneHandshake ==
    acp_initialized =>
      /\ Len(wire) >= 2
      /\ wire[1] = Initialize
      /\ wire[2] = SessionNew
      /\ granted_sid # 0
      /\ acp_session_id = granted_sid
      /\ \A i \in 3..Len(wire) : wire[i] = Prompt(granted_sid)

\* Three calls on one initialized adapter, the second handshake of the process
C10_Witness ==
    /\ acp_initialized
    /\ Len(wire) = 5
    /\ acp_result = "success"
    /\ acp_pc = "idle"

----------------------------------------------------------------------------
(* Properties of the ACP session and of the responses *)

\* The contents of the payloads of one kind, concatenated in arrival order
RECURSIVE TextOf(_, _)
TextOf(kind, payloads) ==
    IF payloads = <<>> THEN <<>>
    ELSE (IF Head(payloads).kind = kind THEN Head(payloads).content ELSE <<>>)
         \o TextOf(kind, Tail(payloads))

\* aexecute returns from _execute_prompt with the answer of the agent
PromptCompletes ==
    acp_pc = "prompting" /\ acp_pc' = "idle" /\ acp_result' \in {"success", "agent_error"}

\* A session/prompt request is sent
PromptStarts == Len(wire') > Len(wire) /\ wire'[Len(wire')].method = "session/prompt"

\* C11: each session/prompt starts from empty session content with the
\* session id kept; the output returned for a completed prompt is the
\* concatenation, in arrival order, of the agent_message_chunk contents
\* received since that reset; thought chunks accumulate in thoughts and
\* never appear in output.
C11_OutputIsChunks ==
    /\ [](acp_initialized =>
            /\ session.output = TextOf("agent_message_chunk", arrivals)
            /\ session.thoughts = TextOf("agent_thought_chunk", arrivals))
    /\ [][/\ PromptStarts =>
               /\ session' = EmptySession
               /\ acp_session_id' = granted_sid'
               /\ acp_initialized => acp_session_id' = acp_session_id
          /\ PromptCompletes =>
               acp_response'.output = TextOf("agent_message_chunk", arrivals)]_vars

\* The second prompt of a session is answered after a message chunk and a
\* thought chunk of its own
C11_Witness ==
    /\ acp_result = "success"
    /\ acp_pc = "idle"
    /\ Len(wire) = 4
    /\ arrivals = << [kind |-> "agent_thought_chunk", content |-> <<"a">>],
                     [kind |-> "agent_message_chunk", content |-> <<"b">>] >>
    /\ acp_response.output = <<"b">>
    /\ session.thoughts = <<"a">>

\* The wait for the answer to a session/prompt ends with the deadline
PromptTimesOut ==
    acp_pc = "prompting" /\ acp_pc' = "idle" /\ acp_result' = "timeout"

\* aexecute is called on the adapter as a timed-out prompt left it
CallAfterTimeout ==
    /\ acp_result = "timeout"
    /\ acp_pc = "idle"
    /\ acp_initialized
    /\ acp_process = "alive"
    /\ acp_calls' = acp_calls + 1

\* C12: when no session/prompt response arrives in time, the call returns
\* success=false with a timeout error, the client is not stopped, the
\* session and the initialized flag are kept, and a later aexecute sends a
\* new session/prompt on the same session without a handshake.
C12_TimeoutKeepsSession ==
    [][/\ PromptTimesOut =>
            /\ ~acp_response'.success
            /\ acp_response'.error = "timed out"
            /\ client_state' = "running"
            /\ acp_process' = acp_process
            /\ acp_client_ref'
            /\ acp_initialized'
            /\ acp_session_id' = acp_session_id
            /\ acp_session_id' = granted_sid
       /\ CallAfterTimeout =>
            /\ wire' = Append(wire, Prompt(granted_sid))
            /\ acp_pc' = "prompting"]_vars

\* The call after a timed-out prompt waits for the answer to its own prompt
C12_Witness ==
    /\ acp_result = "timeout"
    /\ acp_pc = "prompting"
    /\ wire = <<Initialize, SessionNew, Prompt(granted_sid), Prompt(granted_sid)>>

\* C13: when the session/prompt response arrives in time, success is false
\* if and only if its stopReason is "error", and the error is then the
\* response's error.message; every other stopReason, a missing one
\* included, gives success; the output is the text accumulated so far.
C13_ErrorStopOnly ==
    /\ [](acp_result \in {"success", "agent_error"} =>
            /\ last_reply.kind = "result"
            /\ acp_response.success <=> last_reply.stop # "error"
            /\ acp_response.success <=> acp_result = "success"
            /\ (last_reply.stop = "error" /\ last_reply.msg # "missing")
                 => acp_response.error = last_reply.msg)
    /\ [][PromptCompletes => acp_response'.output = session.output]_vars

\* An answer with stopReason "error" and a message, after some output
C13_Witness ==
    /\ acp_result = "agent_error"
    /\ last_reply = [kind |-> "result", stop |-> "error", msg |-> "boom"]
    /\ acp_response.error = "boom"
    /\ acp_response.output = <<"a", "b">>

MetadataKeys ==
    {"tool", "agent", "session_id", "stop_reason", "tool_calls_count", "has_thoughts"}

\* C14: every response returned from a prompt execution (completion, "error"
\* stop reason, timeout) has the six metadata keys tool, agent, session_id,
\* stop_reason, tool_calls_count and has_thoughts.
C14_MetadataKeys ==
    acp_result \in {"success", "agent_error", "timeout"} =>
        MetadataKeys \subseteq DOMAIN acp_response.metadata

----------------------------------------------------------------------------
(* Properties of the permission handler *)

\* The decision the configured mode gives an operation, where the mode
\* alone decides
ModeApproves(operation) ==
    CASE permission_mode = "auto_approve" -> TRUE
      [] permission_mode = "deny_all" -> FALSE
      [] permission_mode = "interactive" -> FALSE
      [] permission_mode = "allowlist" ->
           \E i \in 1..Len(allowlist) : MatchesPattern(operation, allowlist[i])

\* C15: the decision depends only on the mode and the operation, not on
\* earlier requests: auto_approve approves, deny_all denies, interactive
\* without a TTY denies, and allowlist approves exactly the operations that
\* match at least one pattern, so that an empty allowlist denies all.
C15_DecisionByMode ==
    \A i \in 1..Len(history) :
        (permission_mode = "interactive" => ~stdin_tty)
            => (history[i].result.approved
                  <=> ModeApproves(history[i].request.operation))

\* In allowlist mode a request is denied and a later one is approved by the
\* second pattern of the list
C15_Witness ==
    /\ permission_mode = "allowlist"
    /\ Len(allowlist) = 2
    /\ Len(history) = 2
    /\ ~history[1].result.approved
    /\ history[2].result.approved
    /\ history[2].result.reason = <<"matches allowlist pattern", allowlist[2]>>
    /\ ~MatchesPattern(history[2].request.operation, allowlist[1])

AllowOptions(options) == { i \in 1..Len(options) : options[i].type = "allow" }
FirstOf(indices) == CHOOSE i \in indices : \A j \in indices : i <= j

\* C16: the response is {outcome: selected, optionId} exactly on approve and
\* {outcome: cancelled} exactly on deny; the optionId is the id of the first
\* option of type allow, else the id of the first option, else
\* "proceed_once" when no options are offered.
C16_ReplyShape ==
    history # <<>> =>
      LET result  == history[Len(history)].result
          options == last_request.options
      IN /\ permission_reply.outcome = "selected" <=> result.approved
         /\ permission_reply.outcome = "cancelled" <=> ~result.approved
         /\ result.approved =>
              /\ (AllowOptions(options) # {}
                    /\ options[FirstOf(AllowOptions(options))].id # "missing")
                   => permission_reply.optionId
                        = options[FirstOf(AllowOptions(options))].id
              /\ (AllowOptions(options) = {} /\ options # <<>>
                    /\ options[1].id # "missing")
                   => permission_reply.optionId = options[1].id
              /\ options = <<>> => permission_reply.optionId = "proceed_once"

\* An approval of a request whose second option is the first of type allow
C16_Witness ==
    /\ history # <<>>
    /\ history[Len(history)].result.approved
    /\ last_request.options = <<Option("reject", "r1"), Option("allow", "a1")>>
    /\ permission_reply = [outcome |-> "selected", optionId |-> "a1"]

----------------------------------------------------------------------------
(* Properties of the terminal handlers *)

\* A handler answers the request of the agent in this step
Handled == terminal_reply = NoTerminalReply /\ terminal_reply' # NoTerminalReply

\* C18: a terminal id is in the table exactly from the create that returned
\* it until its release: output, wait_for_exit (also when it times out) and
\* kill do not remove it, a create that fails adds nothing, an id is never
\* given twice, and an operation on an id that is not in the table answers
\* -32001 and leaves the table as it is.
C18_TableFromCreateToRelease ==
    /\ [](DOMAIN terminals \subseteq 1..term_count)
    /\ [][IF Handled
          THEN LET request == terminal_request
                   reply   == terminal_reply'
                   t       == request.terminalId
               IN /\ request.method = "create" =>
                       IF reply.kind = "created"
                       THEN /\ reply.terminalId \notin 1..term_count
                            /\ reply.terminalId \in 1..term_count'
                            /\ DOMAIN terminals'
                                 = DOMAIN terminals \cup {reply.terminalId}
                       ELSE /\ reply.kind = "error"
                            /\ terminals' = terminals
                            /\ term_count' = term_count
                  /\ request.method \in {"output", "wait_for_exit", "kill"} =>
                       DOMAIN terminals' = DOMAIN terminals
                  /\ (request.method = "release" /\ t \in DOMAIN terminals) =>
                       /\ reply.kind = "success"
                       /\ DOMAIN terminals' = DOMAIN terminals \ {t}
                  /\ (request.method # "create" /\ t # 0 /\ t \notin DOMAIN terminals) =>
                       /\ reply = ErrorReply(-32001)
                       /\ terminals' = terminals
                  /\ (request.method # "create" /\ t \in DOMAIN terminals) =>
                       reply # ErrorReply(-32001)
          ELSE DOMAIN terminals' = DOMAIN terminals]_vars

\* Terminal 1 was released, terminal 2 is in the table, and a request for
\* the output of terminal 1 got -32001
C18_Witness ==
    /\ term_count = 2
    /\ DOMAIN terminals = {2}
    /\ terminal_request.method = "output"
    /\ terminal_request.terminalId = 1
    /\ terminal_reply = ErrorReply(-32001)

\* C19: the output accumulator of a terminal only grows, so that every
\* terminal/output result has the one before as a prefix, also across kill
\* and wait_for_exit, which lose nothing of what the command wrote; the
\* result holds all that was written, and its done flag is true exactly
\* when the command no longer runs.
C19_OutputOnlyGrows ==
    [][/\ \A t \in DOMAIN output_buffer \cap DOMAIN output_buffer' :
            /\ IsPrefix(output_buffer[t], output_buffer'[t])
            /\ IsPrefix(output_buffer[t] \o pipe[t],
                        output_buffer'[t] \o pipe'[t])
       /\ (Handled /\ terminal_reply'.kind = "output") =>
            LET t == terminal_request.terminalId
            IN /\ IsPrefix(output_buffer[t], terminal_reply'.output)
               /\ terminal_reply'.output = output_buffer[t] \o pipe[t]
               /\ terminal_reply'.output = output_buffer'[t]
               /\ terminal_reply'.done <=> terminals'[t] # "running"]_vars

\* An output request for a terminal whose command has ended is answered
\* with the two characters the command wrote, and done
C19_Witness ==
    /\ terminal_request.method = "output"
    /\ terminal_reply # NoTerminalReply
    /\ terminal_reply.kind = "output"
    /\ terminal_reply.done
    /\ Len(terminal_reply.output) = 2

----------------------------------------------------------------------------
(* Properties of the file handlers *)

\* A handler answers the file request of the agent in this step
FileHandled == fs_reply = NoFileReply /\ fs_reply' # NoFileReply

\* C20: a write to an absolute path that is not an existing directory
\* succeeds, creating the parent directories, and a following read of the
\* same path returns exactly the written content; a read of an absolute
\* path that does not exist returns {content: null, exists: false}; a
\* request with a missing or relative path, and a write to an existing
\* directory, returns an error and leaves the file system unchanged.
\* (The write is taken to succeed where no component of the path above the
\* target is a file.)
C20_WriteThenRead ==
    [][FileHandled =>
         LET p == fs_request.parts
         IN /\ (fs_request.method = "write" /\ fs_request.path = "absolute"
                  /\ fs_request.has_content /\ Node(fs, p).kind # "dir"
                  /\ \A q \in Ancestors(p) : Node(fs, q).kind # "file") =>
                 /\ fs_reply' = [kind |-> "success"]
                 /\ fs'[p].kind = "file"
                 /\ \A q \in Ancestors(p) : fs'[q].kind = "dir"
            /\ (fs_request.method = "read" /\ fs_request.path = "absolute"
                  /\ last_write.parts = p) =>
                 fs_reply' = [kind |-> "content", content |-> last_write.content]
            /\ (fs_request.method = "read" /\ fs_request.path = "absolute"
                  /\ Node(fs, p).kind = "absent") =>
                 fs_reply' = [kind |-> "not_exists"]
            /\ (\/ fs_request.path \in {"missing", "relative"}
                \/ fs_request.method = "write" /\ Node(fs, p).kind = "dir") =>
                 /\ fs_reply'.kind = "error"
                 /\ fs' = fs]_vars

----------------------------------------------------------------------------
(* Properties of the driver: checkpoints, rollbacks, telemetry *)

\* _aexecute_iteration returns r (or raises, r = "error") in this step
IterationReturns(r) ==
    /\ pc \in {"primary", "fallback"}
    /\ pc' \notin {"primary", "fallback", "cancelled"}
    /\ iteration_result' = r

\* C21: a checkpoint is attempted after every checkpoint_interval-th
\* successful iteration and at no other time: the driver turns to
\* _create_checkpoint exactly in the steps in which an iteration ends in
\* success and brings the count of successful iterations to a multiple of
\* checkpoint_interval.
C21_CheckpointEveryNthSuccess ==
    [][ (pc # "checkpoint" /\ pc' = "checkpoint")
          <=> /\ IterationReturns("success")
              /\ metrics'.successful_iterations % checkpoint_interval = 0 ]_vars

\* C22: the backoff of a failed iteration is followed by a rollback exactly
\* when that iteration brought the count of failed iterations to three or
\* more, and a rollback is attempted at no other point.
C22_RollbackFromThirdFailure ==
    /\ [][ (pc = "backoff" /\ pc' \notin {"backoff", "cancelled"})
             => (pc' = "rollback" <=> metrics.failed_iterations >= 3) ]_vars
    /\ [][ (pc # "rollback" /\ pc' = "rollback") => pc = "backoff" ]_vars

\* The telemetry entry recorded last
LastRecord == iteration_stats.iterations[Len(iteration_stats.iterations)]

\* C23: when the guard reports a loop on the output of a successful
\* iteration, the driver leaves the loop with that iteration recorded in the
\* telemetry as a success under the trigger reason loop_detected.
C23_LoopRecorded ==
    exit_reason = "loop" =>
        /\ pc = "done"
        /\ iteration_stats.iterations # <<>>
        /\ LastRecord.success
        /\ LastRecord.trigger_reason = "loop_detected"

\* C27: an iteration whose body raises adds one to errors and leaves the
\* other counters, the cost tracker and the rollups alone, archives the
\* prompt file and goes on to the sleep before the next tick; when that
\* brings errors above five, the metrics, the telemetry store (with the
\* configured preview length), the cost tracker and the rollups are fresh.
C27_RaiseCountsAndResets ==
    [][ IterationReturns("error") =>
          LET reset == metrics.errors + 1 > 5
          IN /\ pc' = "sleep"
             /\ (prompt_file'.exists /\ prompt_file'.readable)
                   => archives' = archives + 1
             /\ ~reset => /\ metrics' = [metrics EXCEPT !.errors = @ + 1]
                          /\ cost_tracker' = cost_tracker
                          /\ context' = context
                          /\ Len(iteration_stats'.iterations)
                               = Len(iteration_stats.iterations) + 1
             /\ reset => /\ metrics' = NewMetrics
                         /\ iteration_stats'.enabled
                         /\ iteration_stats'.max_preview_length = output_preview_length
                         /\ Len(iteration_stats'.iterations) <= 1
                         /\ cost_tracker' = NewCostTracker(TRUE)
                         /\ context' = NewContext ]_vars

\* The sixth error of a run came after a successful iteration with a long
\* output: everything was replaced, the prompt was archived six times.
C27_Witness ==
    /\ iteration_result = "error"
    /\ pc = "sleep"
    /\ metrics = NewMetrics
    /\ guard_has_output
    /\ archives = ErrorResetLimit + 1
    /\ cost_tracker = NewCostTracker(TRUE)
    /\ context = NewContext
    /\ Len(iteration_stats.iterations) = 1

\* The counters as they were when the trigger reason of the iteration in
\* progress was determined: the loop head has counted the iteration since
AtLoopHead == [metrics EXCEPT !.iterations = @ - 1]

\* C28: the trigger reason of an iteration is initial exactly when no
\* iteration has run before it; otherwise recovery when failed/iterations
\* is above 0.5; otherwise previous_success when the iteration before it
\* succeeded; otherwise task_incomplete.
C28_TriggerClassification ==
    pc \in {"primary", "fallback"} =>
        trigger_reason =
            (IF attempts = 1 THEN "initial"
             ELSE IF 2 * AtLoopHead.failed_iterations > AtLoopHead.iterations
                  THEN "recovery"
             ELSE IF iteration_result = "success" THEN "previous_success"
             ELSE "task_incomplete")

----------------------------------------------------------------------------
(* Properties of the context assembler *)

\* C24: the prompt get_prompt returns has at most max_context_size
\* characters when the source text fits within max_context_size, and at
\* most max_context_size + 100 characters when the source text is larger
\* and is optimized.
C24_PromptBounded ==
    cm_asked =>
        IF Len(cm_text) <= cm_max
        THEN Len(cm_prompt) <= cm_max
        ELSE Len(cm_prompt) <= cm_max + 100

----------------------------------------------------------------------------
(* Properties of the subprocess client *)

\* The three outcomes of a request
Outcomes == {"result", "error", "shutdown"}

\* A future that got an outcome or was cancelled: nothing changes it any more
Finished == Outcomes \cup {"cancelled"}

\* C25, as stated: once the client is stopped the pending-request map is
\* empty and every request issued got exactly one of the three outcomes,
\* exactly once.
C25_ExactlyOneOutcome ==
    cl_state = "stopped" =>
        /\ cl_pending = {}
        /\ \A i \in 1..Len(cl_futures) :
            /\ cl_futures[i].state \in Outcomes
            /\ cl_futures[i].settled = 1

\* C25: a request gets at most one of the three outcomes, at most once, and
\* the outcome it got never changes; a request-level timeout cancels the
\* future and leaves the pending entry in place; once the client is stopped
\* the pending-request map is empty and every request whose future was not
\* cancelled by a timeout has got exactly one outcome, exactly once.
C25_OneOutcomeUnlessTimedOut ==
    /\ [](\A i \in 1..Len(cl_futures) :
            /\ cl_futures[i].settled <= 1
            /\ cl_futures[i].settled = 1 <=> cl_futures[i].state \in Outcomes)
    /\ [](cl_state = "stopped" =>
            /\ cl_pending = {}
            /\ \A i \in 1..Len(cl_futures) : cl_futures[i].state \in Finished)
    /\ [][\A i \in 1..Len(cl_futures) :
            /\ cl_futures[i].state \in Finished => cl_futures'[i] = cl_futures[i]
            /\ (cl_futures[i].state = "pending" /\ cl_futures'[i].state = "cancelled")
                    => cl_pending' = cl_pending]_vars

\* A stopped client whose three requests ended with a result, a timeout
\* and the shutdown error
C25_Witness ==
    /\ cl_state = "stopped"
    /\ cl_pending = {}
    /\ Len(cl_futures) = 3
    /\ cl_futures[1].state = "result"
    /\ cl_futures[2].state = "cancelled"
    /\ cl_futures[3].state = "shutdown"

\* C26: the i-th send_request call gets id i, and the request frames
\* reach the child with ids 1, 2, 3, ... in that order.
C26_IdsInCallOrder ==
    /\ \A i \in 1..Len(cl_futures) : cl_futures[i].id = i
    /\ \A k \in 1..Len(cl_frames) : cl_frames[k] = k

\* Three requests in flight at once, the first of them written
C26_Witness ==
    /\ Len(cl_futures) = 3
    /\ \A i \in 1..3 : cl_futures[i].state = "pending"
    /\ cl_pending = {1, 2, 3}
    /\ cl_frames = <<1>>

----------------------------------------------------------------------------
(* Properties of the adapter: shutdown *)

\* _shutdown completes in this step
ShutdownCompletes == shutdown_kind # "shutdown" /\ shutdown_kind' = "shutdown"

\* aexecute is called in this step, the first call after a _shutdown
CalledAfterShutdown == shutdown_kind = "shutdown" /\ acp_calls' = acp_calls + 1

\* C30: when _shutdown completes the client, the session, the session id
\* and the initialized flag are cleared; the next aexecute starts a new
\* handshake and sends no session/prompt before it is through; a
\* session/prompt is only ever sent after initialize and session/new on
\* the same client and carries the session id that session/new returned,
\* which is none of the ids granted before.
C30_ShutdownThenNewHandshake ==
    /\ [][ShutdownCompletes =>
            /\ ~acp_client_ref'
            /\ ~acp_initialized'
            /\ acp_session_id' = 0
            /\ session' = EmptySession]_vars
    /\ [][CalledAfterShutdown =>
            /\ acp_client_ref'
            /\ wire' \in {<<Initialize>>, <<>>}
            /\ acp_pc' \in {"initializing", "idle"}
            /\ acp_pc' = "idle" => acp_result' = "spawn_error"]_vars
    /\ [][granted_sid' # granted_sid /\ granted_sid' # 0 =>
            /\ granted_sid' > agent_sessions
            /\ acp_session_id' = granted_sid']_vars
    /\ [](acp_session_id <= agent_sessions)
    /\ [](\A k \in 1..Len(wire) :
            wire[k].method = "session/prompt" =>
                /\ k >= 3
                /\ wire[1] = Initialize
                /\ wire[2] = SessionNew
                /\ wire[k].sid = granted_sid
                /\ granted_sid # 0)

\* The second call, after a shutdown, has run the handshake on a new client
\* and waits for the answer to its prompt with the second session id
C30_Witness ==
    /\ acp_calls = 2
    /\ acp_pc = "prompting"
    /\ acp_initialized
    /\ acp_session_id = 2
    /\ agent_sessions = 2
    /\ wire = <<Initialize, SessionNew, Prompt(2)>>

\* The option types that refuse the request
DenyTypes == {"deny", "reject"}

\* C40: for every mode and every list of offered options, an approved
\* permission request never selects an option whose type is a deny/reject
\* type, and a denied request never selects any option.
C40_ApprovalNeverSelectsRefusal ==
    history # <<>> =>
      LET result  == history[Len(history)].result
          options == last_request.options
      IN /\ result.approved =>
              \A i \in 1..Len(options) :
                  options[i].type \in DenyTypes
                    => permission_reply.optionId # options[i].id
         /\ ~result.approved =>
              /\ permission_reply.outcome = "cancelled"
              /\ \A i \in 1..Len(options) :
                   permission_reply.optionId # options[i].id

\* C37: streamed content is never attributed to the wrong prompt: while a
\* session/prompt is in flight, the session whose output, thoughts and tool
\* calls make up its response holds no update that the agent emitted for a
\* prompt that had timed out (or otherwise ended) before this one was sent.
C37_NoContentOfEndedPrompt == acp_pc = "prompting" => ~late_updates

\* C31: after _shutdown the terminal table is empty: every terminal created
\* during the session has been released and its entry removed.
C31_TableEmptyAfterShutdown ==
    shutdown_kind = "shutdown" => TerminalIds = {}

----------------------------------------------------------------------------
(* Properties of the context assembler: prefix, rollups, reset *)

\* The leading lines that start with `#` or are empty, up to the first
\* line that is neither
LeadingBlock(lines) ==
    LET stops == { i \in 1..Len(lines) :
                     ~IsPrefix(<<"#">>, lines[i]) /\ lines[i] # <<>> }
        n == IF stops = {} THEN Len(lines)
             ELSE (CHOOSE i \in stops : \A j \in stops : i <= j) - 1
    IN SubSeq(lines, 1, n)

\* C32: the stable prefix of a new ContextManager is the block of leading
\* lines of the source that start with `#` or are empty; it is a prefix of
\* the source; it is absent when the first line is a non-empty line that
\* does not start with `#`.
C32_StablePrefixIsLeadingBlock ==
    (cm_text # <<>> /\ cm_updates = 0) =>
        LET lines == SplitLines(cm_text) IN
        /\ cm_prefix = JoinLines(LeadingBlock(lines))
        /\ IsPrefix(cm_prefix, cm_text)
        /\ (lines[1] # <<>> /\ ~IsPrefix(<<"#">>, lines[1])) => cm_prefix = <<>>

\* The last k entries of a list, in their order
LastOf(list, k) ==
    [i \in 1..(IF Len(list) < k THEN Len(list) ELSE k) |->
        list[i + (IF Len(list) < k THEN 0 ELSE Len(list) - k)]]

\* C33: after any sequence of update_context, add_error_feedback and reset
\* calls dynamic_context holds at most 5 entries, error_history at most 5
\* and success_patterns at most 3, and each list holds the entries added
\* last since the last reset, in the order they were added.
C33_RollupsBounded ==
    /\ Len(cm_dynamic) <= 5
    /\ Len(cm_errors) <= 5
    /\ Len(cm_success) <= 3
    /\ cm_dynamic = LastOf(cm_added.dynamic, 5)
    /\ cm_errors = LastOf(cm_added.errors, 5)
    /\ cm_success = LastOf(cm_added.success, 3)

\* Six outputs went in since the last reset, all three lists are full, and
\* the oldest entries have gone
C33_Witness ==
    /\ Len(cm_added.dynamic) = 6
    /\ Len(cm_dynamic) = 5
    /\ cm_dynamic[1] # cm_dynamic[5]
    /\ Len(cm_added.errors) > 5
    /\ Len(cm_errors) = 5
    /\ Len(cm_added.success) > 3
    /\ Len(cm_success) = 3
    /\ cm_success[1] # cm_success[3]

\* get_prompt() of a new ContextManager over the same source
FreshPrompt == GetPromptText(cm_text, LoadInitialPrompt(cm_text), <<>>, <<>>, cm_max)

\* C34: for a source no longer than max_context_size, get_prompt() called
\* right after reset() returns what get_prompt() of a new ContextManager
\* over the same source returns, whatever update_context and
\* add_error_feedback calls came before; reset() leaves the stable prefix
\* as it is.
C34_ResetThenPromptIsFresh ==
    /\ [][(cm_added.last = "reset" /\ cm_added'.last = "get" /\ Len(cm_text) <= cm_max)
            => cm_prompt' = FreshPrompt]_vars
    /\ [][cm_added'.last = "reset" => cm_prefix' = cm_prefix]_vars

\* get_prompt() right after a reset that followed an update_context or
\* add_error_feedback call, over a source with a stable prefix
C34_Witness ==
    /\ cm_added.last = "get"
    /\ cm_added.dynamic = <<>>
    /\ cm_updates = 3
    /\ cm_asked
    /\ Len(cm_text) <= cm_max
    /\ cm_prompt = cm_text
    /\ cm_prefix # <<>>

----------------------------------------------------------------------------
(* Properties of the constructor *)

\* C35: the iteration, runtime and cost ceilings of the SafetyGuard and the
\* presence of a cost tracker equal the orchestrator's effective settings,
\* whether it was built from keyword parameters or from a configuration
\* object.
C35_ComponentsMatchSettings ==
    orc.style # "none" =>
        /\ orc.parts.safety_guard.max_iterations = orc.self.max_iterations
        /\ orc.parts.safety_guard.max_runtime = orc.self.max_runtime
        /\ orc.parts.safety_guard.max_cost = orc.self.max_cost
        /\ orc.parts.cost_tracker = orc.self.track_costs

----------------------------------------------------------------------------
(* Properties of the driver: counters, outputs, costs *)

\* A loop tick of arun has ended: the loop sleeps before the next tick, or
\* has left through the break after the telemetry
TickEnded == pc = "sleep" \/ (pc = "done" /\ exit_reason = "loop")

\* C36: at the end of every loop tick metrics.iterations is the sum of
\* successful_iterations, failed_iterations and errors, also after a state
\* reset.
C36_IterationsAreCounted ==
    TickEnded =>
        metrics.iterations = metrics.successful_iterations
                               + metrics.failed_iterations + metrics.errors

\* A tick that ended with the first success after a state reset
C36_Witness ==
    /\ pc = "sleep"
    /\ attempts > metrics.iterations
    /\ metrics.iterations = 1
    /\ metrics.successful_iterations = 1

\* C38: the output preview of an iteration's telemetry record is the
\* output of that iteration's response, or empty, never the output of an
\* earlier iteration; and so is the output handed to loop detection in a
\* successful iteration.
C38_OutputOfSameIteration ==
    /\ \A i \in 1..Len(iteration_stats.iterations) :
         iteration_stats.iterations[i].output_preview
             \in {0, iteration_stats.iterations[i].attempt}
    /\ (TickEnded /\ iteration_result = "success") =>
         last_response_output \in {0, attempts}

\* C39: with cost tracking on, after a successful iteration the cost
\* tracker has an entry under the name of the adapter that answered last in
\* that iteration.
C39_UsageNamesTheAnswerer ==
    (TickEnded /\ iteration_result = "success" /\ cost_tracker.enabled) =>
        invoked[Len(invoked)] \in cost_tracker.costs_by_tool

====
